---- MODULE Spec2Model ----
(***************************************************************************)
(* Trust boundary of the laptop-assistant MCP server:                      *)
(*   - the confirmation manager of src/safety.py (two-phase confirmation   *)
(*     of destructive tools),                                              *)
(*   - the path policy evaluator of src/security_config.py.                *)
(* Strings that the code inspects character by character (paths) are       *)
(* sequences of one-character strings; opaque texts are TLA+ strings.      *)
(***************************************************************************)
EXTENDS Integers, Sequences, FiniteSets, TLC

(***************************************************************************)
(* Bounds of the model.                                                    *)
(***************************************************************************)
\* number of distinct values uuid4 can take in the model
MaxTokens == 2
\* number of concurrent confirm_action tasks on the event loop
NumTasks == 2
\* the clock stops advancing here
MaxTime == 302
\* longest input path, in components
MaxDepth == 3

Tokens == 1..MaxTokens
Tasks == 1..NumTasks
\* the clock advances in steps that make ages of exactly 300 and of 301 occur
TickSteps == {150, 151}

(***************************************************************************)
(* src/safety.py                                                           *)
(***************************************************************************)
TOKEN_EXPIRY_SECONDS == 300

VARIABLES
    now,              \* time.time(), in whole seconds
    _pending_actions, \* the store: token -> action record
    issued,           \* history: token -> the record it was issued with
    calls,            \* history: token -> callbacks invoked by confirms presenting it
    pc,               \* per task: "idle", "awaiting" (suspended at line 119), "done", "crashed"
    tok,              \* per task: the token argument
    action,           \* per task: the local variable action (line 99)
    resp,             \* per task: the value returned by execute_confirmed_action
    callInfo,         \* history, per task: was the token issued, and how long before the call
    cbOutcome,        \* history, per task: what the real operation of the callback did
    cfgAllowed,       \* ALLOWED_DIRECTORIES, read once at start-up
    path,             \* argument of the last is_path_allowed call
    for_write,        \* argument of the last is_path_allowed call
    verdict           \* value returned by the last is_path_allowed call

VARIABLES
    url,              \* argument of the last is_url_safe call
    urlParts,         \* history: the parts the argument was written from
    urlVerdict,       \* value returned by the last is_url_safe call
    target,           \* argument of the last is_execution_safe call
    execParts,        \* history: the parts the argument was written from
    execVerdict       \* value returned by the last is_execution_safe call

VARIABLES
    max_retries,      \* retry_request: parameter
    base_delay,       \* retry_request: parameter, in quarters of a second
    max_delay,        \* retry_request: parameter, in quarters of a second
    attempt,          \* retry_request: the loop variable
    last_exception,   \* retry_request: the local variable
    rpc,              \* retry_request: "idle", "request", "sleep", "returned", "raised"
    returned,         \* retry_request: the response returned or the exception raised
    outcomes,         \* history: the outcome of each request issued
    sleeps,           \* history: the delay of each sleep, without its jitter
    lastSleep         \* history: the last sleep as [delay, jitter]

VARIABLES
    ftool,            \* the file tool called
    destination,      \* the second path argument of move_file and copy_file
    tpc,              \* position of the tool call
    touched,          \* history: file-system accesses of the call, [path, kind]
    webTool,          \* the web tool called
    wpc,              \* position of the web tool call
    hopUrl,           \* the URL the client requests next
    requested         \* history: the URLs the shared client sent a request to

VARIABLES
    op,               \* the subprocess operation called and its timeout argument
    duration,         \* environment: how long the subprocess runs if left alone
    spc,              \* position of the operation: "idle", "called", "waiting", "returned", "raised"
    process,          \* the subprocess: "none", "running", "exited", "killed"
    opResult          \* what the operation returned

VARIABLES
    _client,          \* the module-level singleton of http_client.py
    made,             \* history: the number of AsyncClient objects constructed
    closed,           \* history: the clients whose aclose() has run
    lpc,              \* per session: position in http_lifespan
    mine,             \* history, per session: the client its http_lifespan constructed
    got,              \* what the last get_client() call of a tool gave
    client            \* retry_request: the local variable client

confVars == <<now, _pending_actions, issued, calls, pc, tok, action, resp, callInfo, cbOutcome>>
pathVars == <<cfgAllowed, path, for_write, verdict>>
urlVars == <<url, urlParts, urlVerdict>>
execVars == <<target, execParts, execVerdict>>
retryVars == <<max_retries, base_delay, max_delay, attempt, last_exception, rpc, returned,
               outcomes, sleeps, lastSleep, client>>
toolVars == <<ftool, destination, tpc, touched>>
webVars == <<webTool, wpc, hopUrl, requested>>
procVars == <<op, duration, spc, process, opResult>>
lifeVars == <<_client, made, closed, lpc, mine, got>>
vars == <<confVars, pathVars, urlVars, execVars, retryVars, toolVars, webVars, procVars, lifeVars>>

\* what the actions of one component leave alone
restOfConf == <<pathVars, urlVars, execVars, retryVars, toolVars, webVars, procVars, lifeVars>>
restOfPath == <<confVars, urlVars, execVars, retryVars, toolVars, webVars, procVars, lifeVars>>
restOfUrl == <<confVars, pathVars, execVars, retryVars, toolVars, webVars, procVars, lifeVars>>
restOfExec == <<confVars, pathVars, urlVars, retryVars, toolVars, webVars, procVars, lifeVars>>
restOfRetry == <<confVars, pathVars, urlVars, execVars, toolVars, webVars, procVars, lifeVars>>
restOfTool == <<confVars, urlVars, execVars, retryVars, webVars, procVars, lifeVars>>
restOfWeb == <<confVars, pathVars, execVars, retryVars, toolVars, procVars, lifeVars>>
restOfProc == <<confVars, pathVars, urlVars, execVars, retryVars, toolVars, webVars, lifeVars>>
restOfLife == <<confVars, pathVars, urlVars, execVars, retryVars, toolVars, webVars, procVars>>

\* The token-issuing tools modelled, each with the callback it hands over.
Tools == {"delete_file", "run_command", "uninstall_app"}

\* What the real operation behind a callback can do when it is run.
OpOutcomes(tool) ==
    CASE tool = "delete_file"   -> {"ok", "PermissionError", "OSError"}
      [] tool = "run_command"   -> {"exit0", "exit1", "TimeoutError", "OSError"}
      [] tool = "uninstall_app" -> {"exit0", "exit1", "TimeoutError", "OSError"}

AllOutcomes == {"ok", "PermissionError", "OSError", "exit0", "exit1", "TimeoutError"}

\* The real operation did what was asked.
OpSucceeded(outcome) == outcome \in {"ok", "exit0"}

\* delete_file._do_delete: every failure is caught and returned as a text.
_do_delete(outcome) ==
    CASE outcome = "ok"              -> [raised |-> FALSE, value |-> "Successfully deleted: target"]
      [] outcome = "PermissionError" -> [raised |-> FALSE, value |-> "Permission denied: target"]
      [] OTHER                       -> [raised |-> FALSE, value |-> "Failed to delete: e"]

\* run_command._do_run_command: returns a JSON text carrying its own status.
_do_run_command(outcome) ==
    CASE outcome = "exit0"        -> [raised |-> FALSE, value |-> "{status: success, exit_code: 0}"]
      [] outcome = "exit1"        -> [raised |-> FALSE, value |-> "{status: error, exit_code: 1}"]
      [] outcome = "TimeoutError" -> [raised |-> FALSE, value |-> "{status: error, message: Command timed out}"]
      [] OTHER                    -> [raised |-> FALSE, value |-> "{status: error, message: Failed to execute command}"]

\* uninstall_app._do_uninstall: _run_winget handles the timeout, but a failure
\* to start winget (create_subprocess_exec raising OSError) is not caught.
_do_uninstall(outcome) ==
    CASE outcome = "exit0"        -> [raised |-> FALSE, value |-> "Successfully uninstalled"]
      [] outcome = "exit1"        -> [raised |-> FALSE, value |-> "Failed to uninstall: stderr"]
      [] outcome = "TimeoutError" -> [raised |-> FALSE, value |-> "Failed to uninstall: Command timed out"]
      [] OTHER                    -> [raised |-> TRUE,  value |-> "OSError"]

\* await action["callback"]() for the callback registered by the tool.
RunCallback(tool, outcome) ==
    CASE tool = "delete_file"   -> _do_delete(outcome)
      [] tool = "run_command"   -> _do_run_command(outcome)
      [] tool = "uninstall_app" -> _do_uninstall(outcome)

NoAction == [action_name |-> "none", description |-> "none", callback |-> "none", created_at |-> 0]
NoResp == [status |-> "none"]

InvalidTokenError ==
    [status |-> "error",
     message |-> "Invalid or expired confirmation token. Please re-request the action."]
TokenExpiredError ==
    [status |-> "error",
     message |-> "Confirmation token has expired (was valid for 300 seconds). Please re-request the action."]
SuccessPayload(action_name, result) ==
    [status |-> "success", action |-> action_name, result |-> result]
ActionFailedPayload(action_name, e) ==
    [status |-> "error", action |-> action_name, message |-> "Action failed: " \o e]

\* the store without one entry (del _pending_actions[token])
Del(store, token) == [x \in (DOMAIN store) \ {token} |-> store[x]]
\* the store with one entry set (_pending_actions[token] = record)
Put(store, token, record) ==
    [x \in (DOMAIN store) \cup {token} |-> IF x = token THEN record ELSE store[x]]

SweepExpired_never(t_now, created_at) == FALSE

SweepExpired_inclusive(t_now, created_at) == t_now - created_at >= TOKEN_EXPIRY_SECONDS

\* _cleanup_expired_tokens, line 34: the sweep's test on one entry
SweepExpired(t_now, created_at) == t_now - created_at > TOKEN_EXPIRY_SECONDS

\* _cleanup_expired_tokens: the store after the sweep
_cleanup_expired_tokens(store, t_now) ==
    LET expired == {t \in DOMAIN store : SweepExpired(t_now, store[t].created_at)}
    IN  [x \in (DOMAIN store) \ expired |-> store[x]]

uuid4_repeating(used) == Tokens

\* uuid.uuid4(): the values the call can return. A version-4 UUID carries 122
\* random bits; the model draws a value that no earlier call returned.
uuid4(used) == Tokens \ used

ConfirmExpired_reversed(elapsed) == 0 - elapsed > TOKEN_EXPIRY_SECONDS

\* execute_confirmed_action, line 102: the confirm's test
ConfirmExpired(elapsed) == elapsed > TOKEN_EXPIRY_SECONDS

ConsumeEntry_kept(store, token) == store

ConsumeEntry_sweeping(store, token) == _cleanup_expired_tokens(Del(store, token), now)

\* execute_confirmed_action, line 114: the entry is consumed before the await
ConsumeEntry(store, token) == Del(store, token)

HandleCallback_propagate(action_name, r) ==
    IF r.raised
    THEN [raised |-> TRUE, payload |-> NoResp]
    ELSE [raised |-> FALSE, payload |-> SuccessPayload(action_name, r.value)]

\* execute_confirmed_action, lines 118-131: what the call does with the
\* outcome of the awaited callback
HandleCallback(action_name, r) ==
    IF r.raised
    THEN [raised |-> FALSE, payload |-> ActionFailedPayload(action_name, r.value)]
    ELSE [raised |-> FALSE, payload |-> SuccessPayload(action_name, r.value)]

InitConf ==
    /\ now = 0
    /\ _pending_actions = <<>>
    /\ issued = <<>>
    /\ calls = [t \in Tokens |-> <<>>]
    /\ pc = [k \in Tasks |-> "idle"]
    /\ tok = [k \in Tasks |-> 0]
    /\ action = [k \in Tasks |-> NoAction]
    /\ resp = [k \in Tasks |-> NoResp]
    /\ callInfo = [k \in Tasks |-> "none"]
    /\ cbOutcome = [k \in Tasks |-> "none"]

\* time passes
Tick(d) ==
    /\ now + d <= MaxTime
    /\ now' = now + d
    /\ UNCHANGED <<_pending_actions, issued, calls, pc, tok, action, resp, callInfo, cbOutcome>>
    /\ UNCHANGED restOfConf

create_confirmation_token_eager(tool) ==
    \E token \in uuid4(DOMAIN issued) :
        LET record == [action_name |-> tool,
                       description |-> "description of " \o tool,
                       callback |-> tool,
                       created_at |-> now]
        IN  /\ _pending_actions' = Put(_cleanup_expired_tokens(_pending_actions, now), token, record)
            /\ issued' = Put(issued, token, record)
            /\ calls' = [calls EXCEPT ![token] = Append(@, tool)]
            /\ UNCHANGED <<now, pc, tok, action, resp, callInfo, cbOutcome>>
            /\ UNCHANGED restOfConf

\* A token-issuing tool is called: create_confirmation_token(tool, ..., callback).
create_confirmation_token(tool) ==
    \E token \in uuid4(DOMAIN issued) :
        LET record == [action_name |-> tool,
                       description |-> "description of " \o tool,
                       callback |-> tool,
                       created_at |-> now]
        IN  /\ _pending_actions' = Put(_cleanup_expired_tokens(_pending_actions, now), token, record)
            /\ issued' = Put(issued, token, record)
            /\ UNCHANGED <<now, calls, pc, tok, action, resp, callInfo, cbOutcome>>
            /\ UNCHANGED restOfConf

\* confirm_action(token) up to its first suspension point: lines 93-119.
execute_confirmed_action(k, token) ==
    /\ pc[k] = "idle"
    /\ tok' = [tok EXCEPT ![k] = token]
    /\ callInfo' = [callInfo EXCEPT ![k] =
                        IF token \notin DOMAIN issued THEN "unissued"
                        ELSE IF now - issued[token].created_at > TOKEN_EXPIRY_SECONDS THEN "old"
                        ELSE "fresh"]
    /\ IF token \notin DOMAIN _pending_actions
       THEN /\ resp' = [resp EXCEPT ![k] = InvalidTokenError]
            /\ pc' = [pc EXCEPT ![k] = "done"]
            /\ UNCHANGED <<_pending_actions, calls, action>>
       ELSE IF ConfirmExpired(now - _pending_actions[token].created_at)
       THEN /\ _pending_actions' = Del(_pending_actions, token)
            /\ resp' = [resp EXCEPT ![k] = TokenExpiredError]
            /\ pc' = [pc EXCEPT ![k] = "done"]
            /\ action' = [action EXCEPT ![k] = _pending_actions[token]]
            /\ UNCHANGED calls
       ELSE /\ action' = [action EXCEPT ![k] = _pending_actions[token]]
            /\ _pending_actions' = ConsumeEntry(_pending_actions, token)
            /\ calls' = [calls EXCEPT ![token] = Append(@, _pending_actions[token].callback)]
            /\ pc' = [pc EXCEPT ![k] = "awaiting"]
            /\ UNCHANGED resp
    /\ UNCHANGED <<now, issued, cbOutcome>>
    /\ UNCHANGED restOfConf

CallbackDone_shared(k, outcome) ==
    /\ pc[k] = "awaiting"
    /\ LET last == CHOOSE j \in Tasks :
                       pc[j] = "awaiting" /\ \A i \in Tasks : pc[i] = "awaiting" => i <= j
           h == HandleCallback(action[last].action_name, RunCallback(action[last].callback, outcome))
       IN  /\ outcome \in OpOutcomes(action[last].callback)
           /\ pc' = [pc EXCEPT ![k] = IF h.raised THEN "crashed" ELSE "done"]
           /\ resp' = [resp EXCEPT ![k] = h.payload]
    /\ cbOutcome' = [cbOutcome EXCEPT ![k] = outcome]
    /\ UNCHANGED <<now, _pending_actions, issued, calls, tok, action, callInfo>>
    /\ UNCHANGED restOfConf

\* The awaited callback completes and the call returns: lines 119-131.
CallbackDone(k, outcome) ==
    /\ pc[k] = "awaiting"
    /\ outcome \in OpOutcomes(action[k].callback)
    /\ LET h == HandleCallback(action[k].action_name, RunCallback(action[k].callback, outcome))
       IN  /\ pc' = [pc EXCEPT ![k] = IF h.raised THEN "crashed" ELSE "done"]
           /\ resp' = [resp EXCEPT ![k] = h.payload]
    /\ cbOutcome' = [cbOutcome EXCEPT ![k] = outcome]
    /\ UNCHANGED <<now, _pending_actions, issued, calls, tok, action, callInfo>>
    /\ UNCHANGED restOfConf

\* The response has been delivered; the task slot serves the next call.
Return(k) ==
    /\ pc[k] \in {"done", "crashed"}
    /\ pc' = [pc EXCEPT ![k] = "idle"]
    /\ tok' = [tok EXCEPT ![k] = 0]
    /\ action' = [action EXCEPT ![k] = NoAction]
    /\ resp' = [resp EXCEPT ![k] = NoResp]
    /\ callInfo' = [callInfo EXCEPT ![k] = "none"]
    /\ cbOutcome' = [cbOutcome EXCEPT ![k] = "none"]
    /\ UNCHANGED <<now, _pending_actions, issued, calls>>
    /\ UNCHANGED restOfConf

(***************************************************************************)
(* src/security_config.py: is_path_allowed.  POSIX flavour of pathlib.     *)
(***************************************************************************)
BLOCKED_DIRECTORIES == <<
    <<"C", ":", "\\", "W", "i", "n", "d", "o", "w", "s">>,
    <<"C", ":", "\\", "P", "r", "o", "g", "r", "a", "m", " ", "F", "i", "l", "e", "s">>,
    <<"C", ":", "\\", "P", "r", "o", "g", "r", "a", "m", " ", "F", "i", "l", "e", "s", " ", "(", "x", "8", "6", ")">>,
    <<"C", ":", "\\", "P", "r", "o", "g", "r", "a", "m", "D", "a", "t", "a">>,
    <<"/", "e", "t", "c">>,
    <<"/", "u", "s", "r">>,
    <<"/", "b", "i", "n">>,
    <<"/", "s", "b", "i", "n">>,
    <<"/", "b", "o", "o", "t">>,
    <<"/", "l", "i", "b">>,
    <<"/", "l", "i", "b", "6", "4">>,
    <<"/", "v", "a", "r">>,
    <<"/", "r", "o", "o", "t">>
>>

BLOCKED_WRITE_EXTENSIONS == {
    <<".", "e", "x", "e">>, <<".", "b", "a", "t">>, <<".", "c", "m", "d">>,
    <<".", "p", "s", "1">>, <<".", "v", "b", "s">>, <<".", "v", "b", "e">>,
    <<".", "j", "s">>, <<".", "j", "s", "e">>,
    <<".", "w", "s", "f">>, <<".", "w", "s", "h">>, <<".", "m", "s", "c">>,
    <<".", "s", "c", "r">>, <<".", "p", "i", "f">>, <<".", "c", "o", "m">>,
    <<".", "h", "t", "a">>,
    <<".", "d", "l", "l">>, <<".", "s", "y", "s">>, <<".", "d", "r", "v">>,
    <<".", "s", "h">>, <<".", "b", "a", "s", "h">>, <<".", "z", "s", "h">>,
    <<".", "f", "i", "s", "h">>
}

UpperLetters == <<"A", "B", "C", "D", "E", "F", "G", "H", "I", "J", "K", "L", "M",
                  "N", "O", "P", "Q", "R", "S", "T", "U", "V", "W", "X", "Y", "Z">>
LowerLetters == <<"a", "b", "c", "d", "e", "f", "g", "h", "i", "j", "k", "l", "m",
                  "n", "o", "p", "q", "r", "s", "t", "u", "v", "w", "x", "y", "z">>

\* str.lower() on one character
LowerChar(c) ==
    IF \E i \in 1..26 : UpperLetters[i] = c
    THEN LowerLetters[CHOOSE i \in 1..26 : UpperLetters[i] = c]
    ELSE c

\* str.lower()
Lower(s) == [i \in 1..Len(s) |-> LowerChar(s[i])]

\* str.startswith(prefix)
startswith(s, prefix) ==
    /\ Len(prefix) <= Len(s)
    /\ SubSeq(s, 1, Len(prefix)) = prefix

\* The environment of the process: its working directory and the one symbolic
\* link of the file system, /home/al/ln -> /etc (both as lists of components).
Cwd == << <<"h", "o", "m", "e">>, <<"a", "l">> >>
SymLinks == [l \in { << <<"h", "o", "m", "e">>, <<"a", "l">>, <<"l", "n">> >> } |-> << <<"e", "t", "c">> >>]

DotDot == <<".", ".">>
Dot == <<".">>

\* The symbolic links that point to themselves: /home/al/lp -> lp.
SymlinkLoops == { << <<"h", "o", "m", "e">>, <<"a", "l">>, <<"l", "p">> >> }

\* what the walk ends with when it has met a link of SymlinkLoops (errno ELOOP)
ELOOP == <<"E", "L", "O", "O", "P", "NUL">>

\* the components of a path string: split at "/", empty components dropped
RECURSIVE SplitAcc(_, _, _)
SplitAcc(s, cur, acc) ==
    IF s = <<>>
    THEN IF cur = <<>> THEN acc ELSE Append(acc, cur)
    ELSE IF Head(s) = "/"
         THEN SplitAcc(Tail(s), <<>>, IF cur = <<>> THEN acc ELSE Append(acc, cur))
         ELSE SplitAcc(Tail(s), Append(cur, Head(s)), acc)

Split(s) == SplitAcc(s, <<>>, <<>>)

\* realpath: "." is skipped, ".." steps to the physical parent, a component
\* that is a symbolic link is replaced by its target; the walk stops at a link
\* that points to itself
RECURSIVE Walk(_, _)
Walk(cur, rest) ==
    IF rest = <<>> THEN cur
    ELSE LET c == Head(rest) IN
         IF c = Dot THEN Walk(cur, Tail(rest))
         ELSE IF c = DotDot
         THEN Walk(IF cur = <<>> THEN cur ELSE SubSeq(cur, 1, Len(cur) - 1), Tail(rest))
         ELSE LET nxt == Append(cur, c)
              IN  IF nxt \in SymlinkLoops THEN Append(nxt, ELOOP)
                  ELSE Walk(IF nxt \in DOMAIN SymLinks THEN SymLinks[nxt] ELSE nxt, Tail(rest))

\* Path(path).resolve(): the canonical absolute path as a list of components.
\* A NUL character makes it raise ValueError (error); a symbolic link loop
\* makes it raise RuntimeError (raises), which is neither a ValueError nor an
\* OSError.
resolve(s) ==
    IF \E i \in 1..Len(s) : s[i] = "NUL"
    THEN [error |-> TRUE, raises |-> FALSE, parts |-> <<>>]
    ELSE LET parts == Walk(IF s # <<>> /\ s[1] = "/" THEN <<>> ELSE Cwd, Split(s))
         IN  IF parts # <<>> /\ parts[Len(parts)] = ELOOP
             THEN [error |-> FALSE, raises |-> TRUE, parts |-> <<>>]
             ELSE [error |-> FALSE, raises |-> FALSE, parts |-> parts]

\* str(Path) of a canonical path
RECURSIVE JoinParts(_)
JoinParts(parts) ==
    IF parts = <<>> THEN <<>> ELSE <<"/">> \o Head(parts) \o JoinParts(Tail(parts))

PathStr(parts) == IF parts = <<>> THEN <<"/">> ELSE JoinParts(parts)

\* PurePath.suffix of a file name: from its last dot on, unless that dot is the
\* first or the last character
suffix(name) ==
    LET dots == {i \in 1..Len(name) : name[i] = "."}
    IN  IF dots = {} THEN <<>>
        ELSE LET j == CHOOSE i \in dots : \A d \in dots : d <= i
             IN  IF 1 < j /\ j < Len(name) THEN SubSeq(name, j, Len(name)) ELSE <<>>

WriteExt_cased(parts) == IF parts = <<>> THEN <<>> ELSE suffix(parts[Len(parts)])

\* resolved.suffix.lower(), line 99
WriteExt(parts) == IF parts = <<>> THEN <<>> ELSE Lower(suffix(parts[Len(parts)]))

\* lines 78-81: the indices of the blocked directories that match
BlockedHits(resolved_str) ==
    {i \in 1..Len(BLOCKED_DIRECTORIES) :
        startswith(Lower(resolved_str),
                   Lower(PathStr(resolve(BLOCKED_DIRECTORIES[i]).parts)))}

\* lines 86-90: some allowed directory matches
InAllowed(resolved_str, allowed_dirs) ==
    \E i \in 1..Len(allowed_dirs) :
        startswith(Lower(resolved_str), Lower(PathStr(resolve(allowed_dirs[i]).parts)))

Verdict(allowed, kind, arg) == [allowed |-> allowed, reason |-> [kind |-> kind, arg |-> arg]]

Allowed == Verdict(TRUE, "", <<>>)

\* Not a returned pair: the call ended with an exception of this kind, which
\* the except clause of lines 74-75 does not catch.
Raised(exception) == Verdict(FALSE, "raised", exception)
RuntimeError == <<"R", "u", "n", "t", "i", "m", "e", "E", "r", "r", "o", "r">>

is_path_allowed_allowlist_first(p, w, allowed_dirs) ==
    LET r == resolve(p) IN
    IF r.raises THEN Raised(RuntimeError)
    ELSE IF r.error THEN Verdict(FALSE, "Invalid path", <<>>)
    ELSE LET resolved_str == PathStr(r.parts)
             hits == BlockedHits(resolved_str)
         IN  IF allowed_dirs # <<>> /\ ~InAllowed(resolved_str, allowed_dirs)
             THEN Verdict(FALSE, "Path is outside allowed directories", resolved_str)
             ELSE IF allowed_dirs = <<>> /\ hits # {}
             THEN Verdict(FALSE, "Access to system directory is not allowed",
                          BLOCKED_DIRECTORIES[CHOOSE i \in hits : \A h \in hits : i <= h])
             ELSE IF w /\ WriteExt(r.parts) \in BLOCKED_WRITE_EXTENSIONS
             THEN Verdict(FALSE, "Writing files with this extension is not allowed", WriteExt(r.parts))
             ELSE Allowed

\* is_path_allowed(path, for_write) under ALLOWED_DIRECTORIES = allowed_dirs
is_path_allowed(p, w, allowed_dirs) ==
    LET r == resolve(p) IN
    IF r.raises THEN Raised(RuntimeError)
    ELSE IF r.error THEN Verdict(FALSE, "Invalid path", <<>>)
    ELSE LET resolved_str == PathStr(r.parts)
             hits == BlockedHits(resolved_str)
         IN  IF hits # {}
             THEN Verdict(FALSE, "Access to system directory is not allowed",
                          BLOCKED_DIRECTORIES[CHOOSE i \in hits : \A h \in hits : i <= h])
             ELSE IF allowed_dirs # <<>> /\ ~InAllowed(resolved_str, allowed_dirs)
             THEN Verdict(FALSE, "Path is outside allowed directories", resolved_str)
             ELSE IF w /\ WriteExt(r.parts) \in BLOCKED_WRITE_EXTENSIONS
             THEN Verdict(FALSE, "Writing files with this extension is not allowed", WriteExt(r.parts))
             ELSE Allowed

\* The inputs of the path evaluator: file names joined by "/", relative or absolute.
Names == {<<"e", "t", "c">>, <<"a", "l", "i", "c", "e">>, <<"l", "n">>, <<".", ".">>,
          <<"e", ".", "b", "a", "t">>, <<"e", ".", "B", "A", "T">>, <<"a", ".", "t", "x", "t">>}

RECURSIVE RelPaths(_)
RelPaths(n) ==
    IF n = 0 THEN {<<>>}
    ELSE LET shorter == RelPaths(n - 1)
         IN  shorter \cup {IF p = <<>> THEN c ELSE p \o <<"/">> \o c : p \in shorter, c \in Names}

InputPaths ==
    RelPaths(MaxDepth) \cup {<<"/">> \o p : p \in RelPaths(MaxDepth)} \cup {<<"a", "NUL">>}
    \cup {<<"/", "h", "o", "m", "e", "/", "a", "l", "/", "l", "p">>,
          <<"l", "p", "/", "e", ".", "b", "a", "t">>}

\* The values of MCP_ALLOWED_DIRECTORIES the model starts with.
AllowedConfigs == {
    <<>>,
    << <<"/", "h", "o", "m", "e", "/", "a", "l">> >>,
    << <<"/", "e", "t", "c">> >>,
    << <<"/", "e", "t", "c">>, <<"/", "h", "o", "m", "e", "/", "a", "l">> >>
}

NoVerdict == Verdict(FALSE, "none", <<>>)

InitPathIdle ==
    /\ cfgAllowed = <<>>
    /\ path = <<>>
    /\ for_write = FALSE
    /\ verdict = NoVerdict

\* A tool obtains the verdict on its path argument.
CheckPath ==
    /\ verdict = NoVerdict
    /\ verdict' = is_path_allowed(path, for_write, cfgAllowed)
    /\ UNCHANGED <<cfgAllowed, path, for_write>>
    /\ UNCHANGED restOfPath

\* ---------------------------------------------------------------------------
\* URL policy: is_url_safe (src/src/security_config.py)
\* ---------------------------------------------------------------------------

\* c in s
HasChar(s, c) == \E i \in 1..Len(s) : s[i] = c

\* str.find(c) + 1: the first position of the character, 0 when absent
find(s, c) ==
    IF HasChar(s, c)
    THEN CHOOSE i \in 1..Len(s) : s[i] = c /\ \A j \in 1..(i - 1) : s[j] # c
    ELSE 0

\* str.rfind(c) + 1: the last position of the character, 0 when absent
rfind(s, c) ==
    IF HasChar(s, c)
    THEN CHOOSE i \in 1..Len(s) : s[i] = c /\ \A j \in (i + 1)..Len(s) : s[j] # c
    ELSE 0

\* str.partition(c)
partition(s, c) ==
    LET i == find(s, c)
    IN  IF i = 0
        THEN [head |-> s, sep |-> FALSE, tail |-> <<>>]
        ELSE [head |-> SubSeq(s, 1, i - 1), sep |-> TRUE, tail |-> SubSeq(s, i + 1, Len(s))]

\* str.rpartition(c)
rpartition(s, c) ==
    LET i == rfind(s, c)
    IN  IF i = 0
        THEN [head |-> <<>>, sep |-> FALSE, tail |-> s]
        ELSE [head |-> SubSeq(s, 1, i - 1), sep |-> TRUE, tail |-> SubSeq(s, i + 1, Len(s))]

\* str.split(c): empty pieces are kept
RECURSIVE split(_, _)
split(s, c) ==
    LET i == find(s, c)
    IN  IF i = 0 THEN <<s>>
        ELSE <<SubSeq(s, 1, i - 1)>> \o split(SubSeq(s, i + 1, Len(s)), c)

Digits == <<"0", "1", "2", "3", "4", "5", "6", "7", "8", "9">>
HexDigits == <<"0", "1", "2", "3", "4", "5", "6", "7", "8", "9", "a", "b", "c", "d", "e", "f">>

IsDigit(c) == \E i \in 1..10 : Digits[i] = c
IsHexDigit(c) == \E i \in 1..16 : HexDigits[i] = LowerChar(c)
IsLetter(c) == \E i \in 1..26 : LowerLetters[i] = LowerChar(c)
DigitValue(c) == (CHOOSE i \in 1..16 : HexDigits[i] = LowerChar(c)) - 1

\* int(s, base) for a string of digits of that base; int("") raises ValueError
RECURSIVE int(_, _)
int(s, base) ==
    IF s = <<>> THEN 0
    ELSE int(SubSeq(s, 1, Len(s) - 1), base) * base + DigitValue(s[Len(s)])

\* "%x" % n for 0 <= n < 65536
RECURSIVE hex(_)
hex(n) ==
    IF n < 16 THEN <<HexDigits[n + 1]>>
    ELSE hex(n \div 16) \o <<HexDigits[(n % 16) + 1]>>

\* An address is its version and its octets (IPv4) or hextets (IPv6); the value
\* NoAddress stands for the ValueError of the ipaddress module.
NoAddress == [version |-> 0, words |-> <<>>]

\* ipaddress.IPv4Address._parse_octet succeeds
_parse_octet_ok(o) ==
    /\ o # <<>>
    /\ \A i \in 1..Len(o) : IsDigit(o[i])
    /\ Len(o) <= 3
    /\ ~(o # <<"0">> /\ o[1] = "0")
    /\ int(o, 10) <= 255

\* ipaddress.IPv4Address(s)
IPv4Address(s) ==
    LET octets == split(s, ".")
    IN  IF HasChar(s, "/") \/ Len(octets) # 4 THEN NoAddress
        ELSE IF \E i \in 1..4 : ~_parse_octet_ok(octets[i]) THEN NoAddress
        ELSE [version |-> 4, words |-> [i \in 1..4 |-> int(octets[i], 10)]]

\* ipaddress.IPv6Address._parse_hextet succeeds
_parse_hextet_ok(h) ==
    /\ \A i \in 1..Len(h) : IsHexDigit(h[i])
    /\ Len(h) <= 4
    /\ h # <<>>

\* ipaddress.IPv6Address._ip_int_from_string, after an IPv4-style suffix has
\* been converted to two hexadecimal parts
HextetsOfParts(parts) ==
    LET n == Len(parts)
        skips == {i \in 2..(n - 1) : parts[i] = <<>>}
    IN  IF n > 9 \/ Cardinality(skips) > 1 THEN NoAddress
        ELSE IF skips # {}
        THEN LET skip_index == CHOOSE i \in skips : TRUE
                 parts_hi == (skip_index - 1) - (IF parts[1] = <<>> THEN 1 ELSE 0)
                 parts_lo == (n - skip_index) - (IF parts[n] = <<>> THEN 1 ELSE 0)
                 parts_skipped == 8 - (parts_hi + parts_lo)
             IN  IF parts[1] = <<>> /\ parts_hi # 0 THEN NoAddress
                 ELSE IF parts[n] = <<>> /\ parts_lo # 0 THEN NoAddress
                 ELSE IF parts_skipped < 1 THEN NoAddress
                 ELSE IF \/ \E i \in 1..parts_hi : ~_parse_hextet_ok(parts[i])
                         \/ \E i \in (n - parts_lo + 1)..n : ~_parse_hextet_ok(parts[i])
                 THEN NoAddress
                 ELSE [version |-> 6,
                       words |-> [i \in 1..8 |->
                                    IF i <= parts_hi THEN int(parts[i], 16)
                                    ELSE IF i <= parts_hi + parts_skipped THEN 0
                                    ELSE int(parts[n - 8 + i], 16)]]
        ELSE IF n # 8 \/ parts[1] = <<>> \/ parts[n] = <<>> THEN NoAddress
        ELSE IF \E i \in 1..8 : ~_parse_hextet_ok(parts[i]) THEN NoAddress
        ELSE [version |-> 6, words |-> [i \in 1..8 |-> int(parts[i], 16)]]

\* ipaddress.IPv6Address(s): an optional "%scope" is split off, the rest parsed
IPv6Address(s) ==
    LET scoped == partition(s, "%")
        addr == scoped.head
        parts == split(addr, ":")
        n == Len(parts)
    IN  IF HasChar(s, "/") THEN NoAddress
        ELSE IF scoped.sep /\ (scoped.tail = <<>> \/ HasChar(scoped.tail, "%")) THEN NoAddress
        ELSE IF addr = <<>> \/ n < 3 THEN NoAddress
        ELSE IF HasChar(parts[n], ".")
        THEN LET v4 == IPv4Address(parts[n])
             IN  IF v4 = NoAddress THEN NoAddress
                 ELSE HextetsOfParts(SubSeq(parts, 1, n - 1)
                                     \o <<hex(v4.words[1] * 256 + v4.words[2]),
                                          hex(v4.words[3] * 256 + v4.words[4])>>)
        ELSE HextetsOfParts(parts)

\* ipaddress.ip_address(s)
ip_address(s) ==
    IF IPv4Address(s) # NoAddress THEN IPv4Address(s) ELSE IPv6Address(s)

\* 2^n
RECURSIVE Pow2(_)
Pow2(n) == IF n = 0 THEN 1 ELSE 2 * Pow2(n - 1)

\* ipaddress.ip_network(...) as version, network address and prefix length
ip_network(version, words, prefixlen) ==
    [version |-> version, words |-> words, prefixlen |-> prefixlen]

\* ip in network: same version, and the first prefixlen bits agree
InNetwork(ip, network) ==
    /\ ip.version = network.version
    /\ LET w == IF ip.version = 4 THEN 8 ELSE 16
       IN  \A i \in 1..Len(network.words) :
              LET left == network.prefixlen - (i - 1) * w
                  bits == IF left < 0 THEN 0 ELSE IF left > w THEN w ELSE left
              IN  ip.words[i] \div Pow2(w - bits) = network.words[i] \div Pow2(w - bits)

_PRIVATE_IP_RANGES_172_16 == <<
    ip_network(4, <<10, 0, 0, 0>>, 8),
    ip_network(4, <<172, 16, 0, 0>>, 16),
    ip_network(4, <<192, 168, 0, 0>>, 16),
    ip_network(4, <<127, 0, 0, 0>>, 8),
    ip_network(4, <<169, 254, 0, 0>>, 16),
    ip_network(6, <<0, 0, 0, 0, 0, 0, 0, 1>>, 128),
    ip_network(6, <<64512, 0, 0, 0, 0, 0, 0, 0>>, 8),
    ip_network(6, <<65152, 0, 0, 0, 0, 0, 0, 0>>, 10)
>>

_PRIVATE_IP_RANGES == <<
    ip_network(4, <<10, 0, 0, 0>>, 8),
    ip_network(4, <<172, 16, 0, 0>>, 12),
    ip_network(4, <<192, 168, 0, 0>>, 16),
    ip_network(4, <<127, 0, 0, 0>>, 8),
    ip_network(4, <<169, 254, 0, 0>>, 16),
    ip_network(6, <<0, 0, 0, 0, 0, 0, 0, 1>>, 128),
    ip_network(6, <<64512, 0, 0, 0, 0, 0, 0, 0>>, 7),
    ip_network(6, <<65152, 0, 0, 0, 0, 0, 0, 0>>, 10)
>>

_BLOCKED_HOSTNAMES == {
    <<"l", "o", "c", "a", "l", "h", "o", "s", "t">>,
    <<"l", "o", "c", "a", "l", "h", "o", "s", "t", ".", "l", "o", "c", "a", "l", "d", "o", "m", "a", "i", "n">>,
    <<"1", "2", "7", ".", "0", ".", "0", ".", "1">>,
    <<":", ":", "1">>,
    <<"0", ".", "0", ".", "0", ".", "0">>,
    <<"m", "e", "t", "a", "d", "a", "t", "a", ".", "g", "o", "o", "g", "l", "e", ".", "i", "n", "t", "e", "r", "n", "a", "l">>,
    <<"1", "6", "9", ".", "2", "5", "4", ".", "1", "6", "9", ".", "2", "5", "4">>
}

ALLOWED_URL_SCHEMES == { <<"h", "t", "t", "p">>, <<"h", "t", "t", "p", "s">> }

\* the characters urlsplit strips from the left end, and those it removes
_WHATWG_C0_CONTROL_OR_SPACE == {" ", "\t", "\n", "\r"}
_UNSAFE_URL_BYTES_TO_REMOVE == {"\t", "\r", "\n"}

\* str.lstrip(chars)
RECURSIVE lstrip(_, _)
lstrip(s, chars) == IF s # <<>> /\ s[1] \in chars THEN lstrip(Tail(s), chars) ELSE s

\* c in urllib.parse.scheme_chars
IsSchemeChar(c) == IsLetter(c) \/ IsDigit(c) \/ c \in {"+", "-", "."}

\* urllib.parse._splitnetloc(url, 2): the text between "//" and the first of / ? #
_splitnetloc(rest) ==
    LET ends == {i \in 3..Len(rest) : rest[i] \in {"/", "?", "#"}}
        delim == IF ends = {} THEN Len(rest) + 1
                 ELSE CHOOSE i \in ends : \A j \in ends : i <= j
    IN  SubSeq(rest, 3, delim - 1)

\* urllib.parse._check_bracketed_host does not raise
_check_bracketed_host_ok(h) ==
    IF startswith(h, <<"v">>)
    THEN LET d == find(h, ".")
         IN  d > 2 /\ d < Len(h) /\ \A j \in 2..(d - 1) : IsHexDigit(h[j])
    ELSE ip_address(h).version = 6

\* urlparse(url), as far as is_url_safe reads it: the scheme and the netloc,
\* or the ValueError raised for an ill-formed bracketed host
urlparse(u) ==
    LET stripped == SelectSeq(lstrip(u, _WHATWG_C0_CONTROL_OR_SPACE),
                              LAMBDA c : c \notin _UNSAFE_URL_BYTES_TO_REMOVE)
        i == find(stripped, ":")
        hasScheme == /\ i > 1
                     /\ IsLetter(stripped[1])
                     /\ \A j \in 1..(i - 1) : IsSchemeChar(stripped[j])
        scheme == IF hasScheme THEN Lower(SubSeq(stripped, 1, i - 1)) ELSE <<>>
        rest == IF hasScheme THEN SubSeq(stripped, i + 1, Len(stripped)) ELSE stripped
        hasNetloc == Len(rest) >= 2 /\ rest[1] = "/" /\ rest[2] = "/"
        netloc == IF hasNetloc THEN _splitnetloc(rest) ELSE <<>>
        bracketed_host == partition(partition(netloc, "[").tail, "]").head
    IN  IF HasChar(netloc, "[") # HasChar(netloc, "]")
        THEN [error |-> TRUE, scheme |-> <<>>, netloc |-> <<>>]
        ELSE IF HasChar(netloc, "[") /\ ~_check_bracketed_host_ok(bracketed_host)
        THEN [error |-> TRUE, scheme |-> <<>>, netloc |-> <<>>]
        ELSE [error |-> FALSE, scheme |-> scheme, netloc |-> netloc]

\* parsed.hostname; the empty string stands for None
hostname(netloc) ==
    LET hostinfo == rpartition(netloc, "@").tail
        open == partition(hostinfo, "[")
        name == IF open.sep THEN partition(open.tail, "]").head
                ELSE partition(hostinfo, ":").head
        zoned == partition(name, "%")
    IN  IF name = <<>> THEN <<>>
        ELSE Lower(zoned.head) \o (IF zoned.sep THEN <<"%">> ELSE <<>>) \o zoned.tail

is_url_safe_hostname_first(u) ==
    LET parsed == urlparse(u)
        scheme == Lower(parsed.scheme)
        host == hostname(parsed.netloc)
        ip == ip_address(host)
    IN  IF parsed.error THEN Verdict(FALSE, "Invalid URL", <<>>)
        ELSE IF host = <<>> THEN Verdict(FALSE, "URL has no hostname", <<>>)
        ELSE IF Lower(host) \in _BLOCKED_HOSTNAMES
        THEN Verdict(FALSE, "Access is blocked (internal/metadata endpoint)", host)
        ELSE IF scheme \notin ALLOWED_URL_SCHEMES
        THEN Verdict(FALSE, "URL scheme is not allowed", scheme)
        ELSE IF ip # NoAddress
                /\ \E n \in 1..Len(_PRIVATE_IP_RANGES) : InNetwork(ip, _PRIVATE_IP_RANGES[n])
        THEN Verdict(FALSE, "Access to private/internal IP is blocked", host)
        ELSE Allowed

is_url_safe(u) ==
    LET parsed == urlparse(u)
        scheme == Lower(parsed.scheme)
        host == hostname(parsed.netloc)
        ip == ip_address(host)
    IN  IF parsed.error THEN Verdict(FALSE, "Invalid URL", <<>>)
        ELSE IF scheme \notin ALLOWED_URL_SCHEMES
        THEN Verdict(FALSE, "URL scheme is not allowed", scheme)
        ELSE IF host = <<>> THEN Verdict(FALSE, "URL has no hostname", <<>>)
        ELSE IF Lower(host) \in _BLOCKED_HOSTNAMES
        THEN Verdict(FALSE, "Access is blocked (internal/metadata endpoint)", host)
        ELSE IF ip # NoAddress
                /\ \E n \in 1..Len(_PRIVATE_IP_RANGES) : InNetwork(ip, _PRIVATE_IP_RANGES[n])
        THEN Verdict(FALSE, "Access to private/internal IP is blocked", host)
        ELSE Allowed

\* The URLs the model starts with are written as scheme, "//", userinfo, host,
\* port and tail.  Each host is listed with what its text is: a registered name
\* ("name"), a dotted-quad IPv4 literal ("v4") or a bracketed IPv6 literal
\* ("v6") with the octets or hextets of the address it denotes, or a bracketed
\* text that is no address ("malformed").
Host(text, kind, words) == [text |-> text, kind |-> kind, words |-> words]

UrlHosts == {
    Host(<<"e", "x", "a", "m", "p", "l", "e", ".", "c", "o", "m">>, "name", <<>>),
    Host(<<"E", "X", "A", "M", "P", "L", "E", ".", "c", "o", "m">>, "name", <<>>),
    Host(<<"l", "o", "c", "a", "l", "h", "o", "s", "t">>, "name", <<>>),
    Host(<<"L", "O", "C", "A", "L", "H", "O", "S", "T">>, "name", <<>>),
    Host(<<"L", "o", "c", "a", "l", "H", "o", "s", "t", ".", "L", "o", "c", "a", "l", "D", "o", "m", "a", "i", "n">>, "name", <<>>),
    Host(<<"m", "e", "t", "a", "d", "a", "t", "a", ".", "g", "o", "o", "g", "l", "e", ".", "i", "n", "t", "e", "r", "n", "a", "l">>, "name", <<>>),
    Host(<<"M", "e", "t", "a", "d", "a", "t", "a", ".", "G", "o", "o", "g", "l", "e", ".", "I", "n", "t", "e", "r", "n", "a", "l">>, "name", <<>>),
    Host(<<>>, "name", <<>>),
    Host(<<"1", "2", "7", ".", "1">>, "name", <<>>),
    Host(<<"0", "1", "0", ".", "0", ".", "0", ".", "1">>, "name", <<>>),
    Host(<<"1", "0", ".", "0", ".", "0", ".", "1", ".">>, "name", <<>>),
    Host(<<"2", "5", "6", ".", "1", ".", "1", ".", "1">>, "name", <<>>),
    Host(<<"1", ".", "2", ".", "3">>, "name", <<>>),
    Host(<<"1", "2", "7", ".", "0", ".", "0", ".", "1">>, "v4", <<127, 0, 0, 1>>),
    Host(<<"1", "2", "7", ".", "0", ".", "0", ".", "2">>, "v4", <<127, 0, 0, 2>>),
    Host(<<"1", "2", "7", ".", "2", "5", "5", ".", "2", "5", "5", ".", "2", "5", "5">>, "v4", <<127, 255, 255, 255>>),
    Host(<<"1", "2", "6", ".", "2", "5", "5", ".", "2", "5", "5", ".", "2", "5", "5">>, "v4", <<126, 255, 255, 255>>),
    Host(<<"1", "2", "8", ".", "0", ".", "0", ".", "1">>, "v4", <<128, 0, 0, 1>>),
    Host(<<"1", "0", ".", "0", ".", "0", ".", "1">>, "v4", <<10, 0, 0, 1>>),
    Host(<<"1", "0", ".", "2", "5", "5", ".", "2", "5", "5", ".", "2", "5", "5">>, "v4", <<10, 255, 255, 255>>),
    Host(<<"1", "1", ".", "0", ".", "0", ".", "0">>, "v4", <<11, 0, 0, 0>>),
    Host(<<"9", ".", "2", "5", "5", ".", "2", "5", "5", ".", "2", "5", "5">>, "v4", <<9, 255, 255, 255>>),
    Host(<<"1", "7", "2", ".", "1", "6", ".", "0", ".", "1">>, "v4", <<172, 16, 0, 1>>),
    Host(<<"1", "7", "2", ".", "3", "1", ".", "2", "5", "5", ".", "2", "5", "5">>, "v4", <<172, 31, 255, 255>>),
    Host(<<"1", "7", "2", ".", "3", "2", ".", "0", ".", "1">>, "v4", <<172, 32, 0, 1>>),
    Host(<<"1", "7", "2", ".", "1", "5", ".", "2", "5", "5", ".", "2", "5", "5">>, "v4", <<172, 15, 255, 255>>),
    Host(<<"1", "9", "2", ".", "1", "6", "8", ".", "1", ".", "1">>, "v4", <<192, 168, 1, 1>>),
    Host(<<"1", "9", "2", ".", "1", "6", "9", ".", "1", ".", "1">>, "v4", <<192, 169, 1, 1>>),
    Host(<<"1", "9", "2", ".", "1", "6", "7", ".", "2", "5", "5", ".", "2", "5", "5">>, "v4", <<192, 167, 255, 255>>),
    Host(<<"1", "9", "3", ".", "1", "6", "8", ".", "1", ".", "1">>, "v4", <<193, 168, 1, 1>>),
    Host(<<"1", "6", "9", ".", "2", "5", "4", ".", "1", "6", "9", ".", "2", "5", "4">>, "v4", <<169, 254, 169, 254>>),
    Host(<<"1", "6", "9", ".", "2", "5", "4", ".", "0", ".", "1">>, "v4", <<169, 254, 0, 1>>),
    Host(<<"1", "6", "9", ".", "2", "5", "3", ".", "0", ".", "1">>, "v4", <<169, 253, 0, 1>>),
    Host(<<"1", "6", "9", ".", "2", "5", "5", ".", "0", ".", "1">>, "v4", <<169, 255, 0, 1>>),
    Host(<<"8", ".", "8", ".", "8", ".", "8">>, "v4", <<8, 8, 8, 8>>),
    Host(<<"0", ".", "0", ".", "0", ".", "0">>, "v4", <<0, 0, 0, 0>>),
    Host(<<"[", ":", ":", "1", "]">>, "v6", <<0, 0, 0, 0, 0, 0, 0, 1>>),
    Host(<<"[", "0", ":", "0", ":", "0", ":", "0", ":", "0", ":", "0", ":", "0", ":", "1", "]">>, "v6", <<0, 0, 0, 0, 0, 0, 0, 1>>),
    Host(<<"[", ":", ":", "0", ".", "0", ".", "0", ".", "1", "]">>, "v6", <<0, 0, 0, 0, 0, 0, 0, 1>>),
    Host(<<"[", ":", ":", "2", "]">>, "v6", <<0, 0, 0, 0, 0, 0, 0, 2>>),
    Host(<<"[", ":", ":", "]">>, "v6", <<0, 0, 0, 0, 0, 0, 0, 0>>),
    Host(<<"[", "f", "c", "0", "0", ":", ":", "1", "]">>, "v6", <<64512, 0, 0, 0, 0, 0, 0, 1>>),
    Host(<<"[", "F", "D", "0", "0", ":", ":", "1", "]">>, "v6", <<64768, 0, 0, 0, 0, 0, 0, 1>>),
    Host(<<"[", "f", "d", "f", "f", ":", "f", "f", "f", "f", ":", ":", "1", "]">>, "v6", <<65023, 65535, 0, 0, 0, 0, 0, 1>>),
    Host(<<"[", "f", "b", "f", "f", ":", ":", "1", "]">>, "v6", <<64511, 0, 0, 0, 0, 0, 0, 1>>),
    Host(<<"[", "f", "e", "0", "0", ":", ":", "1", "]">>, "v6", <<65024, 0, 0, 0, 0, 0, 0, 1>>),
    Host(<<"[", "f", "e", "8", "0", ":", ":", "1", "]">>, "v6", <<65152, 0, 0, 0, 0, 0, 0, 1>>),
    Host(<<"[", "F", "E", "8", "0", ":", ":", "1", "]">>, "v6", <<65152, 0, 0, 0, 0, 0, 0, 1>>),
    Host(<<"[", "f", "e", "b", "f", ":", ":", "f", "f", "f", "f", "]">>, "v6", <<65215, 0, 0, 0, 0, 0, 0, 65535>>),
    Host(<<"[", "f", "e", "c", "0", ":", ":", "1", "]">>, "v6", <<65216, 0, 0, 0, 0, 0, 0, 1>>),
    Host(<<"[", "f", "e", "7", "f", ":", ":", "1", "]">>, "v6", <<65151, 0, 0, 0, 0, 0, 0, 1>>),
    Host(<<"[", "2", "0", "0", "1", ":", "d", "b", "8", ":", ":", "1", "]">>, "v6", <<8193, 3512, 0, 0, 0, 0, 0, 1>>),
    Host(<<"[", ":", ":", "f", "f", "f", "f", ":", "1", "2", "7", ".", "0", ".", "0", ".", "1", "]">>, "v6", <<0, 0, 0, 0, 0, 65535, 32512, 1>>),
    Host(<<"[", ":", ":", "f", "f", "f", "f", ":", "1", "0", ".", "0", ".", "0", ".", "1", "]">>, "v6", <<0, 0, 0, 0, 0, 65535, 2560, 1>>),
    Host(<<"[", "f", "e", "8", "0", ":", ":", "1", "%", "2", "5", "e", "t", "h", "0", "]">>, "v6", <<65152, 0, 0, 0, 0, 0, 0, 1>>),
    Host(<<"[", "1", ":", "2", ":", "3", ":", "4", ":", "5", ":", "6", ":", "7", ":", ":", "]">>, "v6", <<1, 2, 3, 4, 5, 6, 7, 0>>),
    Host(<<"[", ":", ":", "1">>, "malformed", <<>>),
    Host(<<":", ":", "1", "]">>, "malformed", <<>>),
    Host(<<"[", "z", "z", "]">>, "malformed", <<>>),
    Host(<<"[", "1", ":", ":", "2", ":", ":", "3", "]">>, "malformed", <<>>),
    Host(<<"[", "1", "0", ".", "0", ".", "0", ".", "1", "]">>, "malformed", <<>>),
    Host(<<"[", "1", "2", "3", "4", "5", ":", ":", "1", "]">>, "malformed", <<>>)
}

UrlParts ==
    [scheme : { <<"h", "t", "t", "p">>, <<"H", "T", "T", "P">>, <<"h", "t", "t", "p", "s">>, <<"H", "t", "t", "p", "s">>, <<"f", "t", "p">>, <<"f", "i", "l", "e">>, <<>> },
     slashes : { <<"/", "/">>, <<>> },
     userinfo : { <<>>, <<"u", ":", "p", "@">>, <<"1", "0", ".", "0", ".", "0", ".", "1", "@">> },
     host : UrlHosts,
     port : { <<>>, <<":", "8", "0">> },
     tail : { <<>>, <<"/", "m">>, <<"?", "@", "x">> }]

\* the text of a URL written from its parts
UrlText(p) ==
    (IF p.scheme = <<>> THEN <<>> ELSE p.scheme \o <<":">>)
    \o p.slashes \o p.userinfo \o p.host.text \o p.port \o p.tail

NoUrlParts ==
    [scheme |-> <<>>, slashes |-> <<>>, userinfo |-> <<>>,
     host |-> Host(<<>>, "name", <<>>), port |-> <<>>, tail |-> <<>>]

\* A tool obtains the verdict on its URL argument.
CheckUrl ==
    /\ urlVerdict = NoVerdict
    /\ urlVerdict' = is_url_safe(url)
    /\ UNCHANGED <<url, urlParts>>
    /\ UNCHANGED restOfUrl

InitUrlIdle ==
    /\ url = <<>>
    /\ urlParts = NoUrlParts
    /\ urlVerdict = NoVerdict

\* ---------------------------------------------------------------------------
\* Execution policy: is_execution_safe (src/src/security_config.py)
\* ---------------------------------------------------------------------------

SAFE_APPLICATIONS == {
    <<"n", "o", "t", "e", "p", "a", "d">>, <<"n", "o", "t", "e", "p", "a", "d", ".", "e", "x", "e">>,
    <<"w", "o", "r", "d", "p", "a", "d">>, <<"w", "o", "r", "d", "p", "a", "d", ".", "e", "x", "e">>,
    <<"c", "a", "l", "c">>, <<"c", "a", "l", "c", ".", "e", "x", "e">>, <<"c", "a", "l", "c", "u", "l", "a", "t", "o", "r">>,
    <<"c", "h", "r", "o", "m", "e">>, <<"f", "i", "r", "e", "f", "o", "x">>, <<"m", "s", "e", "d", "g", "e">>, <<"e", "d", "g", "e">>,
    <<"w", "i", "n", "w", "o", "r", "d">>, <<"e", "x", "c", "e", "l">>, <<"p", "o", "w", "e", "r", "p", "n", "t">>, <<"o", "u", "t", "l", "o", "o", "k">>,
    <<"m", "s", "p", "a", "i", "n", "t">>, <<"p", "a", "i", "n", "t">>,
    <<"s", "n", "i", "p">>
}

SAFE_OPEN_EXTENSIONS == {
    <<".", "t", "x", "t">>, <<".", "m", "d">>, <<".", "p", "d", "f">>, <<".", "d", "o", "c">>, <<".", "d", "o", "c", "x">>,
    <<".", "x", "l", "s">>, <<".", "x", "l", "s", "x">>, <<".", "p", "p", "t">>, <<".", "p", "p", "t", "x">>,
    <<".", "r", "t", "f">>, <<".", "o", "d", "t">>, <<".", "o", "d", "s">>, <<".", "o", "d", "p">>,
    <<".", "p", "n", "g">>, <<".", "j", "p", "g">>, <<".", "j", "p", "e", "g">>, <<".", "g", "i", "f">>, <<".", "b", "m", "p">>,
    <<".", "s", "v", "g">>, <<".", "w", "e", "b", "p">>, <<".", "i", "c", "o">>,
    <<".", "m", "p", "3">>, <<".", "m", "p", "4">>, <<".", "w", "a", "v">>, <<".", "a", "v", "i">>,
    <<".", "m", "k", "v">>, <<".", "w", "e", "b", "m">>, <<".", "m", "o", "v">>,
    <<".", "h", "t", "m", "l">>, <<".", "h", "t", "m">>,
    <<".", "j", "s", "o", "n">>, <<".", "x", "m", "l">>, <<".", "c", "s", "v">>, <<".", "y", "a", "m", "l">>, <<".", "y", "m", "l">>
}

Whitespace == {" ", "\t", "\n", "\r"}

\* str.rstrip()
RECURSIVE rstrip(_)
rstrip(s) ==
    IF s # <<>> /\ s[Len(s)] \in Whitespace THEN rstrip(SubSeq(s, 1, Len(s) - 1)) ELSE s

\* str.strip()
strip(s) == rstrip(lstrip(s, Whitespace))

\* Path(target).name: the last component, "." components and empty ones dropped
PathName(s) ==
    LET parts == SelectSeq(Split(s), LAMBDA c : c # Dot)
    IN  IF parts = <<>> THEN <<>> ELSE parts[Len(parts)]

is_execution_safe_default_allow(app_name_or_path) ==
    LET t == strip(app_name_or_path)
        lower == Lower(t)
        base_name == Lower(PathName(t))
        ext == Lower(suffix(PathName(t)))
    IN  IF startswith(lower, <<"h", "t", "t", "p", ":", "/", "/">>) \/ startswith(lower, <<"h", "t", "t", "p", "s", ":", "/", "/">>) THEN Allowed
        ELSE IF base_name \in SAFE_APPLICATIONS \/ lower \in SAFE_APPLICATIONS THEN Allowed
        ELSE IF ext # <<>>
        THEN IF ext \in SAFE_OPEN_EXTENSIONS THEN Allowed
             ELSE Verdict(FALSE, "Opening files with this extension is not allowed", ext)
        ELSE Allowed

is_execution_safe_extension_first(app_name_or_path) ==
    LET t == strip(app_name_or_path)
        lower == Lower(t)
        base_name == Lower(PathName(t))
        ext == Lower(suffix(PathName(t)))
    IN  IF startswith(lower, <<"h", "t", "t", "p", ":", "/", "/">>) \/ startswith(lower, <<"h", "t", "t", "p", "s", ":", "/", "/">>) THEN Allowed
        ELSE IF ext # <<>>
        THEN IF ext \in SAFE_OPEN_EXTENSIONS THEN Allowed
             ELSE Verdict(FALSE, "Opening files with this extension is not allowed", ext)
        ELSE IF base_name \in SAFE_APPLICATIONS \/ lower \in SAFE_APPLICATIONS THEN Allowed
        ELSE Verdict(FALSE, "not a recognized safe application or file type", t)

is_execution_safe(app_name_or_path) ==
    LET t == strip(app_name_or_path)
        lower == Lower(t)
        base_name == Lower(PathName(t))
        ext == Lower(suffix(PathName(t)))
    IN  IF startswith(lower, <<"h", "t", "t", "p", ":", "/", "/">>) \/ startswith(lower, <<"h", "t", "t", "p", "s", ":", "/", "/">>) THEN Allowed
        ELSE IF base_name \in SAFE_APPLICATIONS \/ lower \in SAFE_APPLICATIONS THEN Allowed
        ELSE IF ext # <<>>
        THEN IF ext \in SAFE_OPEN_EXTENSIONS THEN Allowed
             ELSE Verdict(FALSE, "Opening files with this extension is not allowed", ext)
        ELSE Verdict(FALSE, "not a recognized safe application or file type", t)

\* The targets the model starts with are written as leading blanks, a URL-like
\* prefix, a directory, a file name and a trailer.  Each file name is listed
\* with its extension as written ("" when it has none).
FileName(text, ext) == [text |-> text, ext |-> ext]

ExecNames == {
    FileName(<<"n", "o", "t", "e", "p", "a", "d">>, <<>>),
    FileName(<<"N", "O", "T", "E", "P", "A", "D", ".", "E", "X", "E">>, <<".", "E", "X", "E">>),
    FileName(<<"N", "o", "t", "e", "p", "a", "d">>, <<>>),
    FileName(<<"c", "a", "l", "c">>, <<>>),
    FileName(<<"c", "a", "l", "c", ".", "e", "x", "e">>, <<".", "e", "x", "e">>),
    FileName(<<"c", "a", "l", "c", "u", "l", "a", "t", "o", "r">>, <<>>),
    FileName(<<"c", "h", "r", "o", "m", "e">>, <<>>),
    FileName(<<"p", "a", "i", "n", "t">>, <<>>),
    FileName(<<"s", "n", "i", "p">>, <<>>),
    FileName(<<"c", "m", "d", ".", "e", "x", "e">>, <<".", "e", "x", "e">>),
    FileName(<<"p", "o", "w", "e", "r", "s", "h", "e", "l", "l", ".", "e", "x", "e">>, <<".", "e", "x", "e">>),
    FileName(<<"r", "a", "n", "s", "o", "m", "w", "a", "r", "e", ".", "s", "c", "r">>, <<".", "s", "c", "r">>),
    FileName(<<"m", "a", "l", "w", "a", "r", "e", ".", "e", "x", "e">>, <<".", "e", "x", "e">>),
    FileName(<<"h", "a", "c", "k", ".", "b", "a", "t">>, <<".", "b", "a", "t">>),
    FileName(<<"e", "v", "i", "l", ".", "p", "s", "1">>, <<".", "p", "s", "1">>),
    FileName(<<"c", "m", "d">>, <<>>),
    FileName(<<"e", "x", "p", "l", "o", "r", "e", "r">>, <<>>),
    FileName(<<"r", "e", "g", "e", "d", "i", "t">>, <<>>),
    FileName(<<"d", "o", "c", "u", "m", "e", "n", "t", ".", "p", "d", "f">>, <<".", "p", "d", "f">>),
    FileName(<<"i", "m", "a", "g", "e", ".", "P", "N", "G">>, <<".", "P", "N", "G">>),
    FileName(<<"n", "o", "t", "e", "s", ".", "t", "x", "t">>, <<".", "t", "x", "t">>),
    FileName(<<"a", ".", "h", "t", "m", "l">>, <<".", "h", "t", "m", "l">>),
    FileName(<<"x">>, <<>>),
    FileName(<<"R", "E", "A", "D", "M", "E">>, <<>>),
    FileName(<<"x", ".", "t", "a", "r", ".", "g", "z">>, <<".", "g", "z">>),
    FileName(<<"x", ".", "e", "x", "e", ".", "p", "d", "f">>, <<".", "p", "d", "f">>),
    FileName(<<"x", ".", "p", "d", "f", ".", "e", "x", "e">>, <<".", "e", "x", "e">>),
    FileName(<<".", "b", "a", "s", "h", "r", "c">>, <<>>),
    FileName(<<"x", ".">>, <<>>),
    FileName(<<"n", "o", "t", "e", "p", "a", "d", ".", "t", "x", "t">>, <<".", "t", "x", "t">>),
    FileName(<<"a", "r", "c", "h", "i", "v", "e", ".", "z", "i", "p">>, <<".", "z", "i", "p">>),
    FileName(<<"n", "o", "t", "e", "p", "a", "d", ".", "e", "x", "e", ".", "l", "n", "k">>, <<".", "l", "n", "k">>)
}

ExecParts ==
    [lead : { <<>>, <<" ">> },
     prefix : { <<>>, <<"h", "t", "t", "p", ":", "/", "/">>, <<"H", "T", "T", "P", "S", ":", "/", "/">>, <<"h", "t", "t", "p", ":">>, <<"f", "t", "p", ":", "/", "/">> },
     dir : { <<>>, <<"d", "/">>, <<"/", "d", ".", "d", "/">>, <<"C", ":", "/", "U", "s", "e", "r", "s", "/", "t", "e", "s", "t", "/">> },
     name : ExecNames,
     trailer : { <<>>, <<"/">>, <<"\t">> }]

\* the text of a target written from its parts
ExecText(p) == p.lead \o p.prefix \o p.dir \o p.name.text \o p.trailer

NoExecParts ==
    [lead |-> <<>>, prefix |-> <<>>, dir |-> <<>>, name |-> FileName(<<>>, <<>>),
     trailer |-> <<>>]

\* open_application obtains the verdict on its target.
CheckExec ==
    /\ execVerdict = NoVerdict
    /\ execVerdict' = is_execution_safe(target)
    /\ UNCHANGED <<target, execParts>>
    /\ UNCHANGED restOfExec

InitExecIdle ==
    /\ target = <<>>
    /\ execParts = NoExecParts
    /\ execVerdict = NoVerdict

\* ---------------------------------------------------------------------------
\* Retry helper: retry_request (src/src/http_client.py)
\* ---------------------------------------------------------------------------

_RETRYABLE_STATUS_CODES == {429, 500, 502, 503, 504}

\* The outcomes of one await client.request(...): a response with a status, a
\* timeout, or a network-level error.
Statuses == {200, 304, 404, 501, 429, 500, 503}
Response(status) == [kind |-> "response", status |-> status]
Outcomes ==
    {Response(s) : s \in Statuses}
    \cup {[kind |-> "TimeoutException", status |-> 0], [kind |-> "ConnectError", status |-> 0]}

\* A response or an exception object, told apart by the attempt it came from.
Object(kind, status, n) == [kind |-> kind, status |-> status, attempt |-> n]
None == Object("None", 0, 0)
\* line 174 fails
Line174Error == Object("AssertionError", 0, 0)

\* line 35: _client is None
NoClient == 0

\* the RuntimeError of get_client (lines 45-48)
ClientNotInitialised == Object("RuntimeError", 0, 0)

\* lines 45-49, with c the value of the global _client: the client returned,
\* or the RuntimeError raised
get_client(c) == [raises |-> c = NoClient, value |-> c]

\* no get_client() call yet
NotCalled == [raises |-> FALSE, value |-> NoClient]

\* Whether response.raise_for_status() raises.  It raises for every 4xx and
\* 5xx status; for 1xx and 3xx it depends on the installed httpx, so both
\* answers are possible.
raise_for_status_lenient(status) ==
    IF status \in 400..599 THEN {FALSE}
    ELSE IF status \in 200..299 THEN {FALSE}
    ELSE {TRUE, FALSE}

raise_for_status(status) ==
    IF status \in 400..599 THEN {TRUE}
    ELSE IF status \in 200..299 THEN {FALSE}
    ELSE {TRUE, FALSE}

backoff_uncapped(n, base, cap) == base * Pow2(n - 1)

\* line 169: min(base_delay * (2 ** (attempt - 1)), max_delay)
backoff(n, base, cap) ==
    IF base * Pow2(n - 1) < cap THEN base * Pow2(n - 1) ELSE cap

AttemptsRemain_inclusive(n, limit) == n <= limit

\* line 168: attempt < max_retries
AttemptsRemain(n, limit) == n < limit

\* the values of the parameters, delays in eighths of a second
MaxRetries == 3
BaseDelays == {4, 8}
MaxDelays == {6, 80}

InitRetryIdle ==
    /\ max_retries = 0
    /\ base_delay = 0
    /\ max_delay = 0
    /\ attempt = 0
    /\ last_exception = None
    /\ rpc = "idle"
    /\ returned = None
    /\ outcomes = <<>>
    /\ sleeps = <<>>
    /\ lastSleep = [delay |-> 0, jitter |-> 0]
    /\ client = NoClient

\* lines 123-126: the call starts; the loop body is entered unless the range
\* is empty, in which case line 174 is reached with last_exception = None
RetryEnter ==
    /\ rpc = "called"
    /\ IF get_client(_client).raises
       THEN /\ rpc' = "raised" /\ returned' = ClientNotInitialised
            /\ UNCHANGED <<client, last_exception, attempt>>
       ELSE /\ client' = get_client(_client).value
            /\ last_exception' = None
            /\ IF 1 <= max_retries
               THEN attempt' = 1 /\ rpc' = "request" /\ returned' = returned
               ELSE attempt' = attempt /\ rpc' = "raised" /\ returned' = Line174Error
    /\ UNCHANGED <<max_retries, base_delay, max_delay, outcomes, sleeps, lastSleep>>
    /\ UNCHANGED restOfRetry

RetryRequest_propagate(o) ==
    /\ rpc = "request"
    /\ outcomes' = Append(outcomes, o)
    /\ IF o.kind = "response" /\ o.status \notin _RETRYABLE_STATUS_CODES
       THEN \E raises \in raise_for_status(o.status) :
               /\ rpc' = IF raises THEN "raised" ELSE "returned"
               /\ returned' = IF raises THEN Object("HTTPStatusError", o.status, attempt)
                              ELSE Object("response", o.status, attempt)
               /\ last_exception' = last_exception
       ELSE LET exc == IF o.kind = "response"
                       THEN Object("HTTPStatusError", o.status, attempt)
                       ELSE Object(o.kind, 0, attempt)
            IN  /\ last_exception' = exc
                /\ IF o.kind = "response" /\ AttemptsRemain(attempt, max_retries)
                   THEN rpc' = "sleep" /\ returned' = returned
                   ELSE rpc' = "raised" /\ returned' = exc
    /\ UNCHANGED <<max_retries, base_delay, max_delay, attempt, sleeps, lastSleep, client>>
    /\ UNCHANGED restOfRetry

\* lines 127-175: await client.request(...) ends with the outcome o, and the
\* code runs up to the next await, a return or a raise
RetryRequest(o) ==
    /\ rpc = "request"
    /\ outcomes' = Append(outcomes, o)
    /\ IF o.kind = "response" /\ o.status \notin _RETRYABLE_STATUS_CODES
       THEN \E raises \in raise_for_status(o.status) :
               /\ rpc' = IF raises THEN "raised" ELSE "returned"
               /\ returned' = IF raises THEN Object("HTTPStatusError", o.status, attempt)
                              ELSE Object("response", o.status, attempt)
               /\ last_exception' = last_exception
       ELSE LET exc == IF o.kind = "response"
                       THEN Object("HTTPStatusError", o.status, attempt)
                       ELSE Object(o.kind, 0, attempt)
            IN  /\ last_exception' = exc
                /\ IF AttemptsRemain(attempt, max_retries)
                   THEN rpc' = "sleep" /\ returned' = returned
                   ELSE rpc' = "raised" /\ returned' = exc
    /\ UNCHANGED <<max_retries, base_delay, max_delay, attempt, sleeps, lastSleep, client>>
    /\ UNCHANGED restOfRetry

\* lines 169-171 and the loop header: await asyncio.sleep(delay + jitter) ends
\* and the next attempt starts, or the loop is over and line 175 raises
RetrySleep(jitter) ==
    /\ rpc = "sleep"
    /\ LET delay == backoff(attempt, base_delay, max_delay)
       IN  /\ 0 <= jitter /\ 2 * jitter <= delay
           /\ sleeps' = Append(sleeps, delay)
           /\ lastSleep' = [delay |-> delay, jitter |-> jitter]
    /\ IF attempt + 1 <= max_retries
       THEN attempt' = attempt + 1 /\ rpc' = "request" /\ returned' = returned
       ELSE attempt' = attempt /\ rpc' = "raised" /\ returned' = last_exception
    /\ UNCHANGED <<max_retries, base_delay, max_delay, last_exception, outcomes, client>>
    /\ UNCHANGED restOfRetry

\* the jitters the model draws: the ends of [0, delay * 0.5]
Jitters == {0} \cup {backoff(n, b, c) \div 2 : n \in 1..(MaxRetries + 1), b \in BaseDelays, c \in MaxDelays}

\* ---------------------------------------------------------------------------
\* Shared HTTP client: get_client, http_lifespan (src/src/http_client.py)
\* ---------------------------------------------------------------------------

\* The sessions of the server.  FastMCP enters the lifespan it was given once
\* for each session it serves: one under the stdio transport, one for each
\* connected client under the sse and streamable-http transports.
NumSessions == 2
Sessions == 1..NumSessions

InitLifeIdle ==
    /\ _client = NoClient
    /\ made = 0
    /\ closed = {}
    /\ lpc = [s \in Sessions |-> "idle"]
    /\ mine = [s \in Sessions |-> NoClient]
    /\ got = NotCalled

\* the state inside the lifespan of the first session
InitLifeRunning ==
    /\ _client = 1
    /\ made = 1
    /\ closed = {}
    /\ lpc = [s \in Sessions |-> IF s = 1 THEN "body" ELSE "idle"]
    /\ mine = [s \in Sessions |-> IF s = 1 THEN 1 ELSE NoClient]
    /\ got = NotCalled

\* lines 64-81: the lifespan of session s constructs a client, stores it in
\* the global and yields to the body
LifespanStart(s) ==
    /\ lpc[s] = "idle"
    /\ made' = made + 1
    /\ _client' = made + 1
    /\ mine' = [mine EXCEPT ![s] = made + 1]
    /\ lpc' = [lpc EXCEPT ![s] = "body"]
    /\ UNCHANGED <<closed, got>>
    /\ UNCHANGED restOfLife

\* lines 82-83: the body of session s ends, normally or with an exception, and
\* the finally clause awaits _client.aclose(); with _client = None the
\* attribute access raises
LifespanClose(s, failed) ==
    /\ lpc[s] = "body"
    /\ IF _client = NoClient
       THEN lpc' = [lpc EXCEPT ![s] = "AttributeError"] /\ closed' = closed
       ELSE /\ closed' = closed \cup {_client}
            /\ lpc' = [lpc EXCEPT ![s] = IF failed THEN "closing after failure" ELSE "closing"]
    /\ UNCHANGED <<_client, made, mine, got>>
    /\ UNCHANGED restOfLife

\* lines 84-85: aclose() is over and the global is cleared
LifespanClear(s) ==
    /\ lpc[s] \in {"closing", "closing after failure"}
    /\ _client' = NoClient
    /\ lpc' = [lpc EXCEPT ![s] = IF lpc[s] = "closing" THEN "ended" ELSE "failed"]
    /\ UNCHANGED <<made, closed, mine, got>>
    /\ UNCHANGED restOfLife

\* web_tools.py line 169: a tool calls get_client()
GetClient ==
    /\ got' = get_client(_client)
    /\ got' # got
    /\ UNCHANGED <<_client, made, closed, lpc, mine>>
    /\ UNCHANGED restOfLife

\* ---------------------------------------------------------------------------
\* File-touching tools (src/src/tools/file_tools.py, web_tools.py,
\* utility_tools.py): which of them ask is_path_allowed, and what they touch
\* ---------------------------------------------------------------------------

FileTools == {"list_files", "read_file", "write_file", "create_directory", "delete_file",
              "move_file", "copy_file", "search_files", "get_file_info", "download_file",
              "take_screenshot"}

\* the tools that take a source and a destination
TwoPathTools == {"move_file", "copy_file"}

\* the tools whose effect is the callback of a confirmation token
ConfirmedTools == {"delete_file", "move_file"}

\* tempfile.gettempdir()
gettempdir == <<"/", "t", "m", "p">>

\* Path(path).resolve() as a string
Target(p) == PathStr(resolve(p).parts)

\* The call of is_path_allowed the tool makes on its path before it touches
\* the file system: "read" for is_path_allowed(target), "write" for
\* is_path_allowed(target, for_write=True), "none" when the tool makes no call.
Gate(t, p) ==
    CASE t \in {"list_files", "read_file"} -> "read"
      [] t \in {"write_file", "download_file"} -> "write"
      [] t = "take_screenshot" ->
            IF startswith(Target(p), gettempdir) THEN "none" ELSE "write"
      [] OTHER -> "none"

Access(p, kind, w) == [path |-> p, kind |-> kind, write |-> w]

\* what the tool touches before it returns
RequestAccesses(t, p, d) ==
    CASE t = "list_files" -> {Access(Target(p), "list", FALSE)}
      [] t = "read_file" -> {Access(Target(p), "read", FALSE)}
      [] t = "write_file" -> {Access(Target(p), "write", TRUE)}
      [] t = "create_directory" -> {Access(Target(p), "create", TRUE)}
      [] t = "delete_file" -> {Access(Target(p), "stat", FALSE)}
      [] t = "move_file" -> {Access(Target(p), "stat", FALSE), Access(Target(d), "stat", FALSE)}
      [] t = "copy_file" -> {Access(Target(p), "read", FALSE), Access(Target(d), "write", TRUE)}
      [] t = "search_files" -> {Access(Target(p), "list", FALSE)}
      [] t = "get_file_info" -> {Access(Target(p), "stat", FALSE)}
      [] t = "download_file" -> {Access(Target(p), "write", TRUE)}
      [] t = "take_screenshot" -> {Access(Target(p), "write", TRUE)}

\* what the confirmed callback of the tool touches
CallbackAccesses(t, p, d) ==
    CASE t = "delete_file" -> {Access(Target(p), "delete", TRUE)}
      [] t = "move_file" -> {Access(Target(p), "delete", TRUE), Access(Target(d), "write", TRUE)}
      [] OTHER -> {}

ToolPaths == {
    <<"/", "e", "t", "c", "/", "a", ".", "t", "x", "t">>, <<"a", ".", "t", "x", "t">>, <<".", ".", "/", "a", "l", "i", "c", "e", "/", "a", ".", "t", "x", "t">>, <<"l", "n", "/", "a", ".", "t", "x", "t">>, <<"e", ".", "b", "a", "t">>,
    <<"/", "t", "m", "p", "/", "s", ".", "p", "n", "g">>, <<"/", "h", "o", "m", "e", "/", "a", "l", "/", "d">>
}

InitToolIdle ==
    /\ ftool = "none"
    /\ destination = <<>>
    /\ tpc = "idle"
    /\ touched = {}

\* The tool resolves its path and, if it asks at all, asks is_path_allowed.
ToolCall ==
    /\ tpc = "called"
    /\ LET gate == Gate(ftool, path)
       IN  IF gate = "none"
           THEN /\ tpc' = "request"
                /\ UNCHANGED <<for_write, verdict>>
           ELSE /\ for_write' = (gate = "write")
                /\ verdict' = is_path_allowed(path, gate = "write", cfgAllowed)
                /\ tpc' = IF verdict'.allowed THEN "request" ELSE "refused"
    /\ UNCHANGED <<cfgAllowed, path, ftool, destination, touched>>
    /\ UNCHANGED restOfTool

\* The tool does its file-system work; delete_file and move_file leave their
\* effect to the callback of a confirmation token.
ToolTouch ==
    /\ tpc = "request"
    /\ touched' = touched \cup RequestAccesses(ftool, path, destination)
    /\ tpc' = IF ftool \in ConfirmedTools THEN "pending" ELSE "done"
    /\ UNCHANGED <<pathVars, ftool, destination>>
    /\ UNCHANGED restOfTool

\* confirm_action runs the callback of the token.
ToolCallback ==
    /\ tpc = "pending"
    /\ touched' = touched \cup CallbackAccesses(ftool, path, destination)
    /\ tpc' = "done"
    /\ UNCHANGED <<pathVars, ftool, destination>>
    /\ UNCHANGED restOfTool

\* ---------------------------------------------------------------------------
\* Web tools (src/src/tools/web_tools.py) on the shared client, which is
\* built with follow_redirects=True (src/src/http_client.py, line 71)
\* ---------------------------------------------------------------------------

WebTools == {"fetch_webpage", "download_file"}

\* the URLs a user passes to the tools
WebUrls == {
    <<"h", "t", "t", "p", "s", ":", "/", "/", "e", "x", "a", "m", "p", "l", "e", ".", "c", "o", "m", "/", "r">>, <<"h", "t", "t", "p", ":", "/", "/", "e", "x", "a", "m", "p", "l", "e", ".", "c", "o", "m">>,
    <<"h", "t", "t", "p", ":", "/", "/", "1", "6", "9", ".", "2", "5", "4", ".", "1", "6", "9", ".", "2", "5", "4", "/", "m">>, <<"h", "t", "t", "p", ":", "/", "/", "1", "0", ".", "0", ".", "0", ".", "1", "/">>, <<"f", "t", "p", ":", "/", "/", "e", "x", "a", "m", "p", "l", "e", ".", "c", "o", "m">>,
    <<"h", "t", "t", "p", ":", "/", "/", "l", "o", "c", "a", "l", "h", "o", "s", "t", ":", "8", "0", "/">>
}

\* the Location values a server may answer with
RedirectTargets == {
    <<"h", "t", "t", "p", "s", ":", "/", "/", "e", "x", "a", "m", "p", "l", "e", ".", "c", "o", "m", "/", "x">>, <<"h", "t", "t", "p", ":", "/", "/", "1", "6", "9", ".", "2", "5", "4", ".", "1", "6", "9", ".", "2", "5", "4", "/", "m">>, <<"h", "t", "t", "p", ":", "/", "/", "l", "o", "c", "a", "l", "h", "o", "s", "t", ":", "8", "0", "/">>,
    <<"h", "t", "t", "p", ":", "/", "/", "[", ":", ":", "1", "]", "/">>
}

\* the redirects the client follows for one request (bounded; httpx stops at
\* max_redirects, 20 by default)
MaxRedirects == 2

\* http_lifespan, line 71
follow_redirects == TRUE

InitWebIdle ==
    /\ webTool = "none"
    /\ wpc = "idle"
    /\ hopUrl = <<>>
    /\ requested = <<>>

\* fetch_webpage lines 83-88, download_file lines 149-154: the tool asks
\* is_url_safe about the URL it was given and refuses a blocked one.
WebCheck ==
    /\ wpc = "called"
    /\ urlVerdict' = is_url_safe(url)
    /\ wpc' = IF urlVerdict'.allowed THEN "sending" ELSE "refused"
    /\ hopUrl' = url
    /\ UNCHANGED <<url, urlParts, webTool, requested>>
    /\ UNCHANGED restOfWeb

\* The client sends the request to the current hop and the server answers
\* with a final response.
WebFinalResponse ==
    /\ wpc = "sending"
    /\ requested' = Append(requested, hopUrl)
    /\ wpc' = "done"
    /\ UNCHANGED <<urlVars, webTool, hopUrl>>
    /\ UNCHANGED restOfWeb

\* The client sends the request to the current hop and the server answers
\* with a redirect; the client follows it without consulting the tool.
WebRedirect(location) ==
    /\ wpc = "sending"
    /\ requested' = Append(requested, hopUrl)
    /\ IF follow_redirects /\ Len(requested) < MaxRedirects
       THEN wpc' = "sending" /\ hopUrl' = location
       ELSE wpc' = "done" /\ hopUrl' = hopUrl
    /\ UNCHANGED <<urlVars, webTool>>
    /\ UNCHANGED restOfWeb

\* ---------------------------------------------------------------------------
\* Subprocess operations (src/src/tools/system_tools.py, desktop_tools.py,
\* app_tools.py)
\* ---------------------------------------------------------------------------

\* The operations that start a subprocess and wait for it.
SubprocessOps == {"run_command", "shutdown_restart", "schedule_task",
                  "delete_scheduled_task", "_run_winget", "_run_powershell"}

\* The timeout arguments the operation is called with: the tool argument of
\* run_command, the values the callers of _run_winget and _run_powershell pass.
TimeoutArgs(name) ==
    IF name = "run_command" THEN {0, 30, 400}
    ELSE IF name = "_run_winget" THEN {120, 300}
    ELSE IF name = "_run_powershell" THEN {15, 30}
    ELSE {0}

Op(name, timeout, ctx) == [name |-> name, timeout |-> timeout, ctx |-> ctx]
NoOp == Op("none", 0, FALSE)

\* No timeout: the await is not wrapped in asyncio.wait_for.
NoTimeout == 0

\* The timeout the wait for the subprocess runs under, in seconds.
WaitTimeout(o) ==
    IF o.name = "run_command"
    THEN LET low == IF o.timeout > 1 THEN o.timeout ELSE 1
         IN  IF low < 300 THEN low ELSE 300
    ELSE IF o.name = "shutdown_restart" THEN NoTimeout
    ELSE IF o.name = "schedule_task" THEN 60
    ELSE IF o.name = "delete_scheduled_task" THEN 30
    ELSE o.timeout

\* Whether the handler of asyncio.TimeoutError calls process.kill().
KillsOnTimeout(name) == name \in {"run_command", "_run_winget", "_run_powershell"}

\* Whether an exception of create_subprocess_exec is caught by the operation.
CatchesSpawnError(name) == name # "_run_winget"

\* How long the subprocess runs, in seconds; Never for one that hangs.
Never == 0 - 1
Durations == {0, 1, 20, 30, 45, 60, 100, 120, 300, 400, Never}

InitProcIdle ==
    /\ op = NoOp
    /\ duration = 0
    /\ spc = "idle"
    /\ process = "none"
    /\ opResult = "none"

\* create_subprocess_exec / create_subprocess_shell: the subprocess starts, or
\* the call raises (the program is not installed)
SubSpawn(started) ==
    /\ spc = "called"
    /\ IF started
       THEN process' = "running" /\ spc' = "waiting" /\ opResult' = opResult
       ELSE /\ process' = process
            /\ IF CatchesSpawnError(op.name)
               THEN spc' = "returned" /\ opResult' = "failed to execute"
               ELSE spc' = "raised" /\ opResult' = "FileNotFoundError"
    /\ UNCHANGED <<op, duration>>
    /\ UNCHANGED restOfProc

\* await process.communicate() ends because the subprocess has exited, before
\* any timeout of the wait
SubExit ==
    /\ spc = "waiting"
    /\ process = "running"
    /\ duration # Never
    /\ WaitTimeout(op) = NoTimeout \/ duration <= WaitTimeout(op)
    /\ process' = "exited"
    /\ spc' = "returned"
    /\ opResult' = "completed"
    /\ UNCHANGED <<op, duration>>
    /\ UNCHANGED restOfProc

\* asyncio.wait_for raises TimeoutError and the handler of the operation runs
SubTimeout ==
    /\ spc = "waiting"
    /\ process = "running"
    /\ WaitTimeout(op) # NoTimeout
    /\ duration = Never \/ duration >= WaitTimeout(op)
    /\ process' = IF KillsOnTimeout(op.name) THEN "killed" ELSE "running"
    /\ spc' = "returned"
    /\ opResult' = "timed out"
    /\ UNCHANGED <<op, duration>>
    /\ UNCHANGED restOfProc

Init ==
    /\ InitConf /\ InitProcIdle /\ InitLifeIdle /\ InitPathIdle /\ InitUrlIdle /\ InitExecIdle
    /\ InitRetryIdle /\ InitToolIdle /\ InitWebIdle

Next ==
    \/ \E d \in TickSteps : Tick(d)
    \/ \E tool \in Tools : create_confirmation_token(tool)
    \/ \E k \in Tasks, token \in Tokens : execute_confirmed_action(k, token)
    \/ \E k \in Tasks, outcome \in AllOutcomes : CallbackDone(k, outcome)
    \/ \E k \in Tasks : Return(k)

\* The confirmation manager.
Spec == Init /\ [][Next]_vars

PathInit ==
    /\ InitConf /\ InitProcIdle /\ InitLifeIdle /\ InitUrlIdle /\ InitExecIdle /\ InitRetryIdle /\ InitToolIdle /\ InitWebIdle
    /\ cfgAllowed \in AllowedConfigs
    /\ path \in InputPaths
    /\ for_write \in BOOLEAN
    /\ verdict = NoVerdict

PathNext == CheckPath

\* The path policy evaluator under each configuration.
PathSpec == PathInit /\ [][PathNext]_vars

\* is_url_safe applied to each URL of UrlParts
UrlInit ==
    /\ InitConf /\ InitProcIdle /\ InitLifeIdle /\ InitPathIdle /\ InitExecIdle /\ InitRetryIdle /\ InitToolIdle /\ InitWebIdle
    /\ urlParts \in UrlParts
    /\ url = UrlText(urlParts)
    /\ urlVerdict = NoVerdict

UrlNext == CheckUrl

UrlSpec == UrlInit /\ [][UrlNext]_vars

\* is_execution_safe applied to each target of ExecParts
ExecInit ==
    /\ InitConf /\ InitProcIdle /\ InitLifeIdle /\ InitPathIdle /\ InitUrlIdle /\ InitRetryIdle /\ InitToolIdle /\ InitWebIdle
    /\ execParts \in ExecParts
    /\ target = ExecText(execParts)
    /\ execVerdict = NoVerdict

ExecNext == CheckExec

ExecSpec == ExecInit /\ [][ExecNext]_vars

\* one call of retry_request for each value of its parameters
RetryInit ==
    /\ InitConf /\ InitProcIdle /\ InitLifeRunning /\ InitPathIdle /\ InitUrlIdle /\ InitExecIdle /\ InitToolIdle /\ InitWebIdle
    /\ max_retries \in (0 - 1)..MaxRetries
    /\ base_delay \in BaseDelays
    /\ max_delay \in MaxDelays
    /\ attempt = 0
    /\ last_exception = None
    /\ rpc = "called"
    /\ returned = None
    /\ outcomes = <<>>
    /\ sleeps = <<>>
    /\ lastSleep = [delay |-> 0, jitter |-> 0]
    /\ client = NoClient

RetryNext ==
    \/ RetryEnter
    \/ \E o \in Outcomes : RetryRequest(o)
    \/ \E jitter \in Jitters : RetrySleep(jitter)

RetrySpec == RetryInit /\ [][RetryNext]_vars

\* one call of each file-touching tool on each path, under each configuration
ToolInit ==
    /\ InitConf /\ InitProcIdle /\ InitLifeIdle /\ InitUrlIdle /\ InitExecIdle /\ InitRetryIdle /\ InitWebIdle
    /\ cfgAllowed \in AllowedConfigs
    /\ ftool \in FileTools
    /\ path \in ToolPaths
    /\ destination \in IF ftool \in TwoPathTools THEN ToolPaths ELSE {<<>>}
    /\ for_write = FALSE
    /\ verdict = NoVerdict
    /\ tpc = "called"
    /\ touched = {}

ToolNext ==
    \/ ToolCall
    \/ ToolTouch
    \/ ToolCallback

ToolSpec == ToolInit /\ [][ToolNext]_vars

\* one call of fetch_webpage or download_file on each URL
WebInit ==
    /\ InitConf /\ InitProcIdle /\ InitLifeIdle /\ InitPathIdle /\ InitExecIdle /\ InitRetryIdle /\ InitToolIdle
    /\ webTool \in WebTools
    /\ url \in WebUrls
    /\ urlParts = NoUrlParts
    /\ urlVerdict = NoVerdict
    /\ wpc = "called"
    /\ hopUrl = <<>>
    /\ requested = <<>>

WebNext ==
    \/ WebCheck
    \/ WebFinalResponse
    \/ \E location \in RedirectTargets : WebRedirect(location)

WebSpec == WebInit /\ [][WebNext]_vars

\* one call of each subprocess operation, on a subprocess of each duration
ProcInit ==
    /\ InitConf /\ InitLifeIdle /\ InitPathIdle /\ InitUrlIdle /\ InitExecIdle
    /\ InitRetryIdle /\ InitToolIdle /\ InitWebIdle
    /\ op \in {Op(name, t, ctx) : name \in SubprocessOps, t \in {0, 15, 30, 120, 300, 400},
                                   ctx \in BOOLEAN}
    /\ op.timeout \in TimeoutArgs(op.name)
    /\ op.ctx => op.name = "_run_winget"
    /\ duration \in Durations
    /\ spc = "called"
    /\ process = "none"
    /\ opResult = "none"

ProcNext ==
    \/ \E started \in BOOLEAN : SubSpawn(started)
    \/ SubExit
    \/ SubTimeout

ProcSpec == ProcInit /\ [][ProcNext]_vars

\* the lifespans of the sessions, tools calling get_client and one call of
\* retry_request, interleaved
LifeInit ==
    /\ InitConf /\ InitProcIdle /\ InitPathIdle /\ InitUrlIdle /\ InitExecIdle
    /\ InitToolIdle /\ InitWebIdle
    /\ InitLifeIdle
    /\ max_retries = 2
    /\ base_delay = 4
    /\ max_delay = 6
    /\ attempt = 0
    /\ last_exception = None
    /\ rpc = "called"
    /\ returned = None
    /\ outcomes = <<>>
    /\ sleeps = <<>>
    /\ lastSleep = [delay |-> 0, jitter |-> 0]
    /\ client = NoClient

LifeNext ==
    \/ \E s \in Sessions : LifespanStart(s)
    \/ \E s \in Sessions, failed \in BOOLEAN : LifespanClose(s, failed)
    \/ \E s \in Sessions : LifespanClear(s)
    \/ GetClient
    \/ RetryEnter
    \/ \E o \in Outcomes : RetryRequest(o)
    \/ \E jitter \in Jitters : RetrySleep(jitter)

LifeSpec == LifeInit /\ [][LifeNext]_vars

\* one call of one of the three policy functions, on each of its inputs
PolicyInit == PathInit \/ UrlInit \/ ExecInit

PolicyNext ==
    \/ (url = <<>> /\ target = <<>> /\ CheckPath)
    \/ (path = <<>> /\ target = <<>> /\ CheckUrl)
    \/ (path = <<>> /\ url = <<>> /\ CheckExec)

PolicySpec == PolicyInit /\ [][PolicyNext]_vars

TypeOK ==
    /\ now \in 0..MaxTime
    /\ DOMAIN _pending_actions \subseteq DOMAIN issued
    /\ DOMAIN issued \subseteq Tokens
    /\ \A k \in Tasks : pc[k] \in {"idle", "awaiting", "done", "crashed"}

(***************************************************************************)
(* Properties of the confirmation manager (checked under Spec).            *)
(***************************************************************************)

\* Task k starts an execute_confirmed_action call in this step.
Starts(k) == pc[k] = "idle" /\ pc'[k] # "idle"

\* C1: once a confirm has found a token valid (its callback was invoked),
\* every later confirm with that token returns the invalid-token error and
\* invokes nothing.
C1_SingleUse ==
    [][\A k \in Tasks :
          (Starts(k) /\ calls[tok'[k]] # <<>>)
              => /\ pc'[k] = "done"
                 /\ resp'[k] = InvalidTokenError
                 /\ calls' = calls]_vars

\* A second confirm of a token whose callback already ran was refused.
C1_Witness ==
    \E k \in Tasks :
        /\ pc[k] = "done"
        /\ callInfo[k] = "fresh"
        /\ resp[k] = InvalidTokenError
        /\ calls[tok[k]] # <<>>

\* C2: the callback stored with a token is invoked at most once, and while a
\* confirm is suspended at the await of its callback the token is absent from
\* the store.
C2_AtMostOnce ==
    /\ \A t \in Tokens : Len(calls[t]) <= 1
    /\ \A k \in Tasks : pc[k] = "awaiting" => tok[k] \notin DOMAIN _pending_actions

\* While one confirm is suspended in the callback, a second confirm with the
\* same issued token was refused.
C2_Witness ==
    \E k1 \in Tasks, k2 \in Tasks :
        /\ k1 # k2
        /\ tok[k1] = tok[k2]
        /\ pc[k1] = "awaiting"
        /\ pc[k2] = "done"
        /\ callInfo[k2] = "fresh"
        /\ resp[k2] = InvalidTokenError

\* C3: a callback runs only in a step in which a confirm presenting the token
\* it was issued with starts; in particular no request step runs a callback.
C3_TwoPhase ==
    [][calls' # calls =>
          /\ issued' = issued
          /\ \E k \in Tasks :
                /\ Starts(k)
                /\ tok'[k] \in DOMAIN issued
                /\ calls' = [calls EXCEPT ![tok'[k]] = Append(@, issued[tok'[k]].callback)]]_vars

\* One token has been requested and not confirmed (nothing ran), another one
\* has been confirmed and its callback ran.
C3_Witness ==
    \E t1 \in DOMAIN _pending_actions, t2 \in DOMAIN issued :
        /\ calls[t1] = <<>>
        /\ calls[t2] = <<issued[t2].callback>>

\* Task k starts a confirm with an issued token more than 300 seconds after
\* the token was issued.
StartsLate(k) ==
    /\ Starts(k)
    /\ tok'[k] \in DOMAIN issued
    /\ now - issued[tok'[k]].created_at > 300

\* C4 as stated: a confirm made more than 300 seconds after the token was
\* issued returns the token-expired error.
C4_ExpiredErrorAlways ==
    [][\A k \in Tasks :
          StartsLate(k)
              => /\ pc'[k] = "done"
                 /\ resp'[k] = TokenExpiredError
                 /\ tok'[k] \notin DOMAIN _pending_actions'
                 /\ calls' = calls]_vars

\* C4 amended: such a confirm returns the token-expired error when the entry
\* is still stored and the invalid-token error when it is not; either way the
\* entry is gone afterwards and no callback is invoked.
C4_ExpiredNeverRuns ==
    [][\A k \in Tasks :
          StartsLate(k)
              => /\ pc'[k] = "done"
                 /\ resp'[k] = IF tok'[k] \in DOMAIN _pending_actions
                               THEN TokenExpiredError ELSE InvalidTokenError
                 /\ tok'[k] \notin DOMAIN _pending_actions'
                 /\ calls' = calls]_vars

\* A late confirm got the token-expired error and a later one, for the same
\* token, the invalid-token error.
C4_Witness ==
    \E k1 \in Tasks, k2 \in Tasks :
        /\ tok[k1] = tok[k2]
        /\ pc[k1] = "done" /\ callInfo[k1] = "old" /\ resp[k1] = TokenExpiredError
        /\ pc[k2] = "done" /\ callInfo[k2] = "old" /\ resp[k2] = InvalidTokenError

\* The callback awaited by task k raised.
CallbackRaised(k) ==
    /\ cbOutcome[k] # "none"
    /\ RunCallback(action[k].callback, cbOutcome[k]).raised

\* C5: no confirm ends by propagating an exception; when the callback raised,
\* the call returns an error payload with the action name and a message, and
\* the token is not in the store.
C5_CallbackFailureCaught ==
    \A k \in Tasks :
        /\ pc[k] # "crashed"
        /\ (pc[k] = "done" /\ CallbackRaised(k))
              => /\ DOMAIN resp[k] = {"status", "action", "message"}
                 /\ resp[k].status = "error"
                 /\ resp[k].action = issued[tok[k]].action_name
                 /\ tok[k] \notin DOMAIN _pending_actions

\* A confirm whose callback raised has returned.
C5_Witness ==
    \E k \in Tasks : pc[k] = "done" /\ CallbackRaised(k) /\ resp[k].status = "error"

\* C6 as stated: whenever the real operation of a confirmed action failed, the
\* response has status "error" and a message.
C6_FailureIsError ==
    \A k \in Tasks :
        (pc[k] = "done" /\ cbOutcome[k] # "none" /\ ~OpSucceeded(cbOutcome[k]))
            => /\ resp[k].status = "error"
               /\ "message" \in DOMAIN resp[k]

\* C7: a create step returns a token that was never returned before and is
\* not in the store, stores it, and leaves every other entry of the store
\* as it was or sweeps it.
C7_Uniqueness ==
    [][issued' # issued =>
          \E t \in DOMAIN issued' :
              /\ t \notin DOMAIN issued
              /\ t \notin DOMAIN _pending_actions
              /\ t \in DOMAIN _pending_actions'
              /\ DOMAIN issued' = DOMAIN issued \cup {t}
              /\ \A u \in DOMAIN issued : issued'[u] = issued[u]
              /\ \A u \in DOMAIN _pending_actions' \ {t} :
                    u \in DOMAIN _pending_actions /\ _pending_actions'[u] = _pending_actions[u]]_vars

\* Two tokens issued one after the other are both pending.
C7_Witness == Cardinality(DOMAIN _pending_actions) >= 2

(***************************************************************************)
(* Properties of the path policy evaluator (checked under PathSpec).       *)
(***************************************************************************)

\* directory a is directory b or an ancestor of it (lists of components)
Contains(a, b) == Len(a) <= Len(b) /\ SubSeq(b, 1, Len(a)) = a

Checked == verdict # NoVerdict

\* the canonical form of the path lies under a blocked root
UnderBlockedRoot ==
    /\ ~resolve(path).error
    /\ \E i \in 1..Len(BLOCKED_DIRECTORIES) :
          Contains(resolve(BLOCKED_DIRECTORIES[i]).parts, resolve(path).parts)

\* the canonical form of the path lies in one of the allowed directories
UnderAllowedRoot ==
    /\ ~resolve(path).error
    /\ \E i \in 1..Len(cfgAllowed) :
          Contains(resolve(cfgAllowed[i]).parts, resolve(path).parts)

\* C8: a path under a blocked root is blocked with the system-directory
\* reason, for read and for write, whatever ALLOWED_DIRECTORIES lists.
C8_BlocklistPrecedence ==
    (Checked /\ UnderBlockedRoot)
        => /\ ~verdict.allowed
           /\ verdict.reason.kind = "Access to system directory is not allowed"

\* A path under /etc was blocked although ALLOWED_DIRECTORIES lists /etc.
C8_Witness ==
    /\ Checked
    /\ UnderBlockedRoot
    /\ UnderAllowedRoot
    /\ ~verdict.allowed

\* C9 as stated: with a non-empty ALLOWED_DIRECTORIES only paths located in an
\* allowed directory are allowed; with an empty one nothing is blocked as
\* outside the allowlist.
C9_AllowlistContainment ==
    Checked =>
        /\ (cfgAllowed # <<>> /\ verdict.allowed) => UnderAllowedRoot
        /\ cfgAllowed = <<>> => verdict.reason.kind # "Path is outside allowed directories"

\* the path passes the blocklist and the allowlist steps
PassesDirectorySteps ==
    /\ ~resolve(path).error
    /\ ~resolve(path).raises
    /\ BlockedHits(PathStr(resolve(path).parts)) = {}
    /\ cfgAllowed = <<>> \/ InAllowed(PathStr(resolve(path).parts), cfgAllowed)

\* the extension of the canonical path, as written
RawExt ==
    LET parts == resolve(path).parts
    IN  IF parts = <<>> THEN <<>> ELSE suffix(parts[Len(parts)])

\* C10: a path that passes the directory steps is blocked for write exactly
\* when its lower-cased extension is a blocked write extension and is allowed
\* for read; a path allowed for write is allowed for read.
C10_WriteExtension ==
    Checked =>
        /\ PassesDirectorySteps =>
              IF for_write
              THEN ~verdict.allowed <=> Lower(RawExt) \in BLOCKED_WRITE_EXTENSIONS
              ELSE verdict.allowed
        /\ (for_write /\ verdict.allowed) => is_path_allowed(path, FALSE, cfgAllowed).allowed

\* A write to a file with an upper-case blocked extension was blocked.
C10_Witness ==
    /\ Checked
    /\ for_write
    /\ PassesDirectorySteps
    /\ RawExt # Lower(RawExt)
    /\ ~verdict.allowed
    /\ verdict.reason.kind = "Writing files with this extension is not allowed"

(***************************************************************************)
(* Properties of the URL policy evaluator (checked under UrlSpec).        *)
(***************************************************************************)

UrlChecked == urlVerdict # NoVerdict

\* what the parts of the URL say about it
SchemeOk(p) == Lower(p.scheme) \in { <<"h", "t", "t", "p">>, <<"h", "t", "t", "p", "s">> }
HasAuthority(p) == p.slashes = <<"/", "/">>
Rejected(p) == HasAuthority(p) /\ p.host.kind = "malformed"
HostName(p) ==
    IF p.host.kind = "v6" THEN SubSeq(p.host.text, 2, Len(p.host.text) - 1) ELSE p.host.text
HasHostname(p) == HasAuthority(p) /\ p.host.text # <<>>
HostBlocked(p) == Lower(HostName(p)) \in _BLOCKED_HOSTNAMES
HostInBlockedRange(p) ==
    /\ p.host.kind \in {"v4", "v6"}
    /\ \E n \in 1..Len(_PRIVATE_IP_RANGES) :
          InNetwork([version |-> IF p.host.kind = "v4" THEN 4 ELSE 6, words |-> p.host.words],
                    _PRIVATE_IP_RANGES[n])

\* the reason the first failing check of the four gives; "" when none fails
FirstFailingCheck(p) ==
    IF ~SchemeOk(p) THEN "URL scheme is not allowed"
    ELSE IF ~HasHostname(p) THEN "URL has no hostname"
    ELSE IF HostBlocked(p) THEN "Access is blocked (internal/metadata endpoint)"
    ELSE IF HostInBlockedRange(p) THEN "Access to private/internal IP is blocked"
    ELSE ""

\* C11 as stated: is_url_safe returns Allowed exactly when the scheme is http
\* or https, the URL has a hostname, the hostname is not a blocked hostname and
\* is not a literal IP in a blocked range; the first failing check of these
\* four, in this order, gives the reason.
C11_FourChecksInOrder ==
    UrlChecked =>
        /\ urlVerdict.allowed <=> FirstFailingCheck(urlParts) = ""
        /\ urlVerdict.reason.kind = FirstFailingCheck(urlParts)

\* C11 amended: a URL whose bracketed host urlparse rejects is Blocked as an
\* invalid URL before any of the four checks, whatever its scheme; for every
\* other URL the verdict is Allowed exactly when the four checks pass, and the
\* first failing check, in the stated order, gives the reason.
C11_ParseThenFourChecks ==
    UrlChecked =>
        IF Rejected(urlParts)
        THEN ~urlVerdict.allowed /\ urlVerdict.reason.kind = "Invalid URL"
        ELSE /\ urlVerdict.allowed <=> FirstFailingCheck(urlParts) = ""
             /\ urlVerdict.reason.kind = FirstFailingCheck(urlParts)

\* 'ftp://[::1' was blocked as an invalid URL, not for its scheme.
C11_Witness ==
    /\ UrlChecked
    /\ url = <<"f", "t", "p", ":", "/", "/", "[", ":", ":", "1">>
    /\ ~SchemeOk(urlParts)
    /\ urlVerdict.reason.kind = "Invalid URL"

\* the address is in one of 10.0.0.0/8, 172.16.0.0/12, 192.168.0.0/16,
\* 127.0.0.0/8, 169.254.0.0/16, ::1, fc00::/7, fe80::/10
InListedRange(h) ==
    \/ /\ h.kind = "v4"
       /\ \/ h.words[1] = 10
          \/ h.words[1] = 172 /\ h.words[2] \in 16..31
          \/ h.words[1] = 192 /\ h.words[2] = 168
          \/ h.words[1] = 127
          \/ h.words[1] = 169 /\ h.words[2] = 254
    \/ /\ h.kind = "v6"
       /\ \/ h.words = <<0, 0, 0, 0, 0, 0, 0, 1>>
          \/ h.words[1] \in 64512..65023
          \/ h.words[1] \in 65152..65215

ExecChecked == execVerdict # NoVerdict

\* what the parts of the target say about it
UrlPrefixed(p) == Lower(p.prefix) \in { <<"h", "t", "t", "p", ":", "/", "/">>, <<"h", "t", "t", "p", "s", ":", "/", "/">> }
BaseNameSafe(p) == Lower(p.name.text) \in SAFE_APPLICATIONS
ExtensionSafe(p) == Lower(p.name.ext) \in SAFE_OPEN_EXTENSIONS

\* C13: is_execution_safe returns Allowed only if the target starts with
\* http:// or https://, or its basename is a safe application name, or its
\* extension is a safe-open extension (all three without regard to letter
\* case); every other target is Blocked, with or without an extension.
C13_DefaultDeny ==
    ExecChecked =>
        (execVerdict.allowed =>
            \/ UrlPrefixed(execParts)
            \/ BaseNameSafe(execParts)
            \/ ExtensionSafe(execParts))

\* A target with no extension and no application-name match was blocked.
C13_Witness ==
    /\ ExecChecked
    /\ target = <<" ", "C", ":", "/", "U", "s", "e", "r", "s", "/", "t", "e", "s", "t", "/", "r", "e", "g", "e", "d", "i", "t">>
    /\ execParts.name.ext = <<>>
    /\ ~UrlPrefixed(execParts) /\ ~BaseNameSafe(execParts)
    /\ ~execVerdict.allowed
    /\ execVerdict.reason.kind = "not a recognized safe application or file type"
(***************************************************************************)
(* Properties of retry_request (checked under RetrySpec).                 *)
(***************************************************************************)

\* the outcome is one the code retries
Retryable(o) ==
    \/ o.kind = "response" /\ o.status \in {429, 500, 502, 503, 504}
    \/ o.kind \in {"TimeoutException", "ConnectError"}

\* the outcome is a success response
Success(o) == o.kind = "response" /\ o.status \in 200..299

\* the outcome is a response with an error status that is not retried
PermanentError(o) ==
    o.kind = "response" /\ o.status \in 400..599 /\ o.status \notin {429, 500, 502, 503, 504}

\* the exception the code keeps for a retryable outcome of attempt n
ErrorOf(o, n) ==
    IF o.kind = "response" THEN Object("HTTPStatusError", o.status, n)
    ELSE Object(o.kind, 0, n)

Finished == rpc \in {"returned", "raised"}

\* C14: when the first k outcomes are retryable, k < max_retries, and outcome
\* k+1 is a success response, the call has returned that response after k+1
\* requests and k sleeps, whose base delays are non-decreasing and at most
\* max_delay.
C14_RetrySuccess ==
    \A k \in 0..(max_retries - 1) :
        (/\ Len(outcomes) = k + 1
         /\ \A i \in 1..k : Retryable(outcomes[i])
         /\ Success(outcomes[k + 1]))
        => /\ rpc = "returned"
           /\ returned = Object("response", outcomes[k + 1].status, k + 1)
           /\ Len(sleeps) = k
           /\ \A i \in 1..k : sleeps[i] <= max_delay
           /\ \A i \in 1..(k - 1) : sleeps[i] <= sleeps[i + 1]

\* Two retryable outcomes, then 200: returned after two sleeps, the second
\* one capped at max_delay.
C14_Witness ==
    /\ rpc = "returned"
    /\ Len(outcomes) = 3
    /\ outcomes[1] = Response(503) /\ outcomes[2].kind = "TimeoutException"
    /\ outcomes[3] = Response(200)
    /\ Len(sleeps) = 2
    /\ sleeps[1] < sleeps[2] /\ sleeps[2] = max_delay

\* C15: when every attempt has a retryable outcome (max_retries >= 1), the
\* call issues exactly max_retries requests, sleeps exactly max_retries - 1
\* times, never after the final attempt, and then raises the error of the last
\* attempt.
C15_RetryExhaustion ==
    (max_retries >= 1 /\ \A i \in 1..Len(outcomes) : Retryable(outcomes[i]))
    => /\ Len(outcomes) <= max_retries
       /\ Len(sleeps) <= max_retries - 1
       /\ Len(sleeps) <= Len(outcomes)
       /\ Len(outcomes) < max_retries => ~Finished
       /\ Len(outcomes) = max_retries =>
             /\ rpc = "raised"
             /\ Len(sleeps) = max_retries - 1
             /\ returned = ErrorOf(outcomes[max_retries], max_retries)

\* Three attempts failed in three different ways; the third error was raised.
C15_Witness ==
    /\ rpc = "raised"
    /\ max_retries = 3
    /\ outcomes = <<Response(500), [kind |-> "ConnectError", status |-> 0], Response(503)>>
    /\ Len(sleeps) = 2
    /\ returned = Object("HTTPStatusError", 503, 3)

\* C16: a response with a non-retryable error status makes the call raise at
\* that attempt, with no sleep after it and no further request, also after
\* retryable attempts and with attempts left; and every response the call
\* returns has a status that is neither retryable nor an error status.
C16_PermanentErrorRaises ==
    /\ \A n \in 1..Len(outcomes) :
          PermanentError(outcomes[n])
          => /\ n = Len(outcomes)
             /\ rpc = "raised"
             /\ returned = Object("HTTPStatusError", outcomes[n].status, n)
             /\ Len(sleeps) = n - 1
    /\ rpc = "returned"
       => /\ returned.kind = "response"
          /\ returned.status \notin {429, 500, 502, 503, 504}
          /\ returned.status \notin 400..599

\* 404 at the second of three attempts, after a retryable first one.
C16_Witness ==
    /\ rpc = "raised"
    /\ max_retries = 3
    /\ outcomes = <<Response(429), Response(404)>>
    /\ Len(sleeps) = 1
    /\ returned = Object("HTTPStatusError", 404, 2)
(***************************************************************************)
(* Properties of the file-touching tools (checked under ToolSpec).        *)
(***************************************************************************)

\* the tool obtained the verdict on this canonical path
Gated(p) == verdict # NoVerdict /\ p = Target(path)

\* C17: whatever a file-touching tool reads, writes, creates, moves or
\* deletes, in its own body or in its confirmed callback, is at a path for
\* which the tool obtained the verdict of is_path_allowed beforehand and for
\* which that verdict is Allowed.
C17_PathGating ==
    \A a \in touched :
        /\ Gated(a.path)
        /\ is_path_allowed(a.path, a.write, cfgAllowed).allowed
(***************************************************************************)
(* The life of a token (checked under Spec).                              *)
(***************************************************************************)

\* Where a token stands: Pending while it is in the store; once out of it,
\* Executed when a confirm invoked its callback, and otherwise Expired (taken
\* out by a confirm's expiry check) or Invalid (taken out by the sweep).
Pending(t) == t \in DOMAIN _pending_actions
Executed(t) == t \in DOMAIN issued /\ ~Pending(t) /\ calls[t] # <<>>
Lapsed(t) == t \in DOMAIN issued /\ ~Pending(t) /\ calls[t] = <<>>

\* the step takes the token out of the store
Leaves(t) == Pending(t) /\ t \notin DOMAIN _pending_actions'

\* ... by a confirm that invokes its callback
LeavesExecuted(t) ==
    /\ Leaves(t)
    /\ calls'[t] # <<>>
    /\ issued' = issued
    /\ \E k \in Tasks : Starts(k) /\ tok'[k] = t /\ pc'[k] = "awaiting"

\* ... by a confirm that finds it expired
LeavesExpired(t) ==
    /\ Leaves(t)
    /\ calls'[t] = <<>>
    /\ issued' = issued
    /\ \E k \in Tasks : Starts(k) /\ tok'[k] = t /\ resp'[k] = TokenExpiredError

\* ... by the sweep of a create_confirmation_token call
LeavesInvalid(t) ==
    /\ Leaves(t)
    /\ calls'[t] = <<>>
    /\ issued' # issued
    /\ \A k \in Tasks : ~Starts(k)

\* C18: every issued token is in exactly one of Pending, Executed, or
\* Expired/Invalid; a step moves a token only from Pending to one of the
\* others, in exactly one of the three ways; a token that has left Pending
\* stays where it is and is never put back into the store by any operation;
\* a token enters the store only when it is first issued.
C18_TokenStateMachine ==
    /\ [](\A t \in DOMAIN issued :
            /\ Pending(t) => calls[t] = <<>>
            /\ (IF Pending(t) THEN 1 ELSE 0) + (IF Executed(t) THEN 1 ELSE 0)
               + (IF Lapsed(t) THEN 1 ELSE 0) = 1)
    /\ [](DOMAIN _pending_actions \subseteq DOMAIN issued)
    /\ [][\A t \in Tokens :
            /\ (t \in DOMAIN issued /\ ~Pending(t))
                  => /\ t \notin DOMAIN _pending_actions'
                     /\ calls'[t] = calls[t]
            /\ Leaves(t)
                  => (IF LeavesExecuted(t) THEN 1 ELSE 0) + (IF LeavesExpired(t) THEN 1 ELSE 0)
                     + (IF LeavesInvalid(t) THEN 1 ELSE 0) = 1
            /\ (~Pending(t) /\ t \in DOMAIN _pending_actions')
                  => t \notin DOMAIN issued /\ t \in DOMAIN issued']_vars

\* One token was executed and another one left the store without being
\* executed; a confirm of the latter was refused as invalid.
C18_Witness ==
    \E t1 \in Tokens, t2 \in Tokens, k \in Tasks :
        /\ Executed(t1)
        /\ Lapsed(t2)
        /\ pc[k] = "done" /\ tok[k] = t2 /\ resp[k] = InvalidTokenError

\* C19: right after a create_confirmation_token call the store holds no entry
\* older than 300 seconds and holds the new entry; an entry leaves the store
\* only in a create_confirmation_token or execute_confirmed_action step, and
\* the passage of time leaves the store as it is.
C19_LazyExpiry ==
    [][/\ issued' # issued
            => /\ \A t \in DOMAIN _pending_actions' :
                     now' - _pending_actions'[t].created_at <= 300
               /\ \E t \in DOMAIN issued' \ DOMAIN issued :
                     /\ t \in DOMAIN _pending_actions'
                     /\ _pending_actions'[t].created_at = now'
       /\ now' # now => _pending_actions' = _pending_actions
       /\ \A t \in Tokens :
             Leaves(t) => \/ issued' # issued
                          \/ \E k \in Tasks : Starts(k) /\ tok'[k] = t]_vars

\* A token issued more than 300 seconds after an earlier one is in the store
\* and the earlier one is not, with no confirm in progress or just returned.
C19_Witness ==
    \E t1 \in Tokens, t2 \in Tokens :
        /\ Pending(t2)
        /\ _pending_actions[t2].created_at = now
        /\ Lapsed(t1)
        /\ issued[t2].created_at - issued[t1].created_at > 300
        /\ \A k \in Tasks : callInfo[k] = "none"
(***************************************************************************)
(* Properties of the web tools (checked under WebSpec).                   *)
(***************************************************************************)

\* C20: every request the client issues for fetch_webpage or download_file,
\* the hops of followed redirects included, goes to a URL for which
\* is_url_safe returns Allowed.
C20_NoBlockedRequest ==
    \A i \in 1..Len(requested) : is_url_safe(requested[i]).allowed

(***************************************************************************)
(* Subprocess timeouts                                                     *)
(***************************************************************************)

\* C21: every subprocess the six operations start is awaited under a timeout,
\* and when the timeout has fired the subprocess has been killed by the time
\* the operation returns its timeout error.
C21_TimeoutKills ==
    /\ spc = "waiting" => WaitTimeout(op) # NoTimeout
    /\ (spc = "returned" /\ opResult = "timed out") => process = "killed"

(***************************************************************************)
(* Execution policy: precedence of the rules                               *)
(***************************************************************************)

\* The file name written in the parts is the basename of the target: it is
\* not glued to a prefix that does not end a component.
NameIsBaseName(p) ==
    p.dir # <<>> \/ p.prefix = <<>> \/ p.prefix[Len(p.prefix)] = "/"

\* C22: the URL-prefix rule, the application-name rule and the extension rule
\* are applied in this order and the first that matches decides: a target
\* starting with http:// or https:// is Allowed whatever follows, and a target
\* whose basename is a safe application name is Allowed in any directory,
\* whatever its extension.
C22_Precedence ==
    ExecChecked =>
        /\ UrlPrefixed(execParts) => execVerdict = Allowed
        /\ (NameIsBaseName(execParts) /\ BaseNameSafe(execParts)) => execVerdict = Allowed

\* A safe application name with an extension that is not safe to open was
\* allowed, in a directory.
C22_Witness ==
    /\ ExecChecked
    /\ ~UrlPrefixed(execParts)
    /\ execParts.dir # <<>>
    /\ BaseNameSafe(execParts)
    /\ execParts.name.ext # <<>>
    /\ ~ExtensionSafe(execParts)
    /\ execVerdict = Allowed

(***************************************************************************)
(* Retry helper: transient failures and the backoff bound                  *)
(***************************************************************************)

\* a timeout or another network-level exception of client.request
Transient(o) == o.kind \in {"TimeoutException", "ConnectError"}

\* C23: a timeout or network-level exception raised by an attempt is not
\* propagated while attempts remain (the call goes on to sleep and to the next
\* request); when retry_request raises one, max_retries requests were issued
\* and the exception is the one of the last of them.
C23_TransientRetried ==
    /\ (outcomes # <<>> /\ Transient(outcomes[Len(outcomes)]) /\ Len(outcomes) < max_retries)
          => rpc \in {"sleep", "request"}
    /\ (rpc = "raised" /\ Transient(returned))
          => /\ Len(outcomes) = max_retries
             /\ returned.attempt = max_retries
             /\ outcomes[max_retries].kind = returned.kind

\* A timeout on the first attempt was followed by further requests, and the
\* network error of the last attempt was raised.
C23_Witness ==
    /\ rpc = "raised"
    /\ max_retries = 3
    /\ Len(outcomes) = 3
    /\ outcomes[1].kind = "TimeoutException"
    /\ outcomes[2].kind = "response"
    /\ returned.kind = "ConnectError"
    /\ returned.attempt = 3

\* min(a, b)
Smaller(a, b) == IF a < b THEN a ELSE b

\* C24: the sleep before attempt n+1 is delay_n + jitter with
\* delay_n = min(base_delay * 2^(n-1), max_delay) and 0 <= jitter <= delay_n / 2;
\* delay_n doubles until it reaches max_delay and stays there, and no sleep is
\* longer than 1.5 * max_delay.
C24_BackoffBound ==
    /\ \A n \in 1..Len(sleeps) : sleeps[n] = Smaller(base_delay * Pow2(n - 1), max_delay)
    /\ \A n \in 1..(Len(sleeps) - 1) : sleeps[n + 1] = Smaller(2 * sleeps[n], max_delay)
    /\ sleeps # <<>> =>
          /\ lastSleep.delay = sleeps[Len(sleeps)]
          /\ 0 <= lastSleep.jitter
          /\ 2 * lastSleep.jitter <= lastSleep.delay
          /\ 2 * (lastSleep.delay + lastSleep.jitter) <= 3 * max_delay

\* The second sleep was cut down to max_delay and had the largest jitter.
C24_Witness ==
    /\ Len(sleeps) = 2
    /\ sleeps[1] < max_delay
    /\ 2 * sleeps[1] > max_delay
    /\ sleeps[2] = max_delay
    /\ 2 * lastSleep.jitter = max_delay

(***************************************************************************)
(* Shared HTTP client                                                      *)
(***************************************************************************)

\* the clients constructed and not closed
OpenClients == (1..made) \ closed

\* session s is between the start and the end of its lifespan
InLifespan(s) == lpc[s] = "body"

\* no lifespan is running: none has started, or each one that started is over
Outside == \A s \in Sessions : lpc[s] \in {"idle", "ended", "failed"}

\* C25: between the start and the end of a lifespan exactly one client
\* exists and every get_client / retry_request call uses it; outside, no
\* client is left open or referenced (also after a body that failed),
\* get_client raises RuntimeError, and retry_request then fails without a
\* request or a sleep.
C25_SharedClient ==
    /\ [](\A s \in Sessions :
             InLifespan(s) => OpenClients = {mine[s]} /\ _client = mine[s])
    /\ [](Outside => _client = NoClient /\ OpenClients = {})
    /\ [][got' # got =>
             /\ \A s \in Sessions : InLifespan(s) => ~got'.raises /\ got'.value = mine[s]
             /\ Outside => got'.raises]_vars
    /\ [][(rpc = "called" /\ rpc' # "called") =>
             /\ \A s \in Sessions : InLifespan(s) => rpc' # "raised" /\ client' = mine[s]
             /\ Outside => rpc' = "raised" /\ returned' = ClientNotInitialised]_vars
    /\ [](returned = ClientNotInitialised => outcomes = <<>> /\ sleeps = <<>>)

(***************************************************************************)
(* Policy verdicts                                                         *)
(***************************************************************************)

\* the value is a (boolean, reason) pair whose reason is empty exactly when
\* the boolean is True
IsVerdictValue(v) ==
    /\ v.reason.kind # "raised"
    /\ v.allowed <=> v.reason.kind = ""

\* C26: is_path_allowed, is_url_safe and is_execution_safe return a
\* (boolean, reason) pair for every input and never raise; a path that cannot
\* be canonicalized and a URL that cannot be parsed are Blocked; the reason is
\* empty exactly when the verdict is Allowed.
C26_VerdictsAreValues ==
    /\ Checked =>
          /\ IsVerdictValue(verdict)
          /\ (resolve(path).error \/ resolve(path).raises) => ~verdict.allowed
    /\ UrlChecked =>
          /\ IsVerdictValue(urlVerdict)
          /\ urlparse(url).error => ~urlVerdict.allowed
    /\ ExecChecked => IsVerdictValue(execVerdict)

(***************************************************************************)
(* Confirmation manager: frame of confirm, expiry boundary, payloads       *)
(***************************************************************************)

\* the age of a pending token
Age(t) == now - _pending_actions[t].created_at

\* C27: execute_confirmed_action(t) changes the store at most by removing the
\* entry of t; with an absent token the store is unchanged; the entries of
\* all other tokens, expired ones included, stay in place.
C27_ConfirmFrame ==
    [][\A k \in Tasks :
          Starts(k) =>
              /\ \/ _pending_actions' = _pending_actions
                 \/ /\ tok'[k] \in DOMAIN _pending_actions
                    /\ DOMAIN _pending_actions' = DOMAIN _pending_actions \ {tok'[k]}
              /\ \A u \in DOMAIN _pending_actions \ {tok'[k]} :
                    /\ u \in DOMAIN _pending_actions'
                    /\ _pending_actions'[u] = _pending_actions[u]
              /\ tok'[k] \notin DOMAIN _pending_actions
                    => _pending_actions' = _pending_actions]_vars

\* A confirm met its own token expired and removed it, while another token
\* that was at least as old stayed in the store.
C27_Witness ==
    \E k \in Tasks, u \in DOMAIN _pending_actions :
        /\ pc[k] = "done"
        /\ resp[k] = TokenExpiredError
        /\ u # tok[k]
        /\ tok[k] \notin DOMAIN _pending_actions
        /\ _pending_actions[u].created_at <= issued[tok[k]].created_at
        /\ Age(u) > 300

\* create_confirmation_token has run in this step
Creates == DOMAIN issued' # DOMAIN issued

\* C28: the sweep of create_confirmation_token and the check of
\* execute_confirmed_action both take a token for expired only when its age is
\* strictly greater than 300 seconds: the sweep removes exactly the pending
\* tokens older than 300, a confirm of a pending token of age at most 300
\* (exactly 300 included) is accepted, and one of a greater age gets the
\* expired error; so the sweep never removes a token a confirm would accept.
C28_ExpiryBoundary ==
    [][/\ Creates =>
             \A u \in DOMAIN _pending_actions :
                 u \in DOMAIN _pending_actions' <=> Age(u) <= 300
       /\ \A k \in Tasks :
             (Starts(k) /\ tok'[k] \in DOMAIN _pending_actions) =>
                 IF Age(tok'[k]) <= 300
                 THEN pc'[k] = "awaiting" /\ calls'[tok'[k]] # <<>>
                 ELSE pc'[k] = "done" /\ resp'[k] = TokenExpiredError]_vars

\* A token of age exactly 300 is still pending after the sweep that ran at
\* that instant.
C28_Witness ==
    \E t \in DOMAIN _pending_actions, u \in DOMAIN issued :
        /\ Age(t) = 300
        /\ issued[u].created_at = now
        /\ issued[u].created_at > issued[t].created_at

(***************************************************************************)
(* Retry helper: the assertion of line 174                                 *)
(***************************************************************************)

\* C29: whenever line 174 is reached last_exception is not None, for every
\* max_retries; retry_request returns a response or raises an error that came
\* from a request it issued.
C29_LastExceptionSet ==
    Finished =>
        /\ returned # Line174Error
        /\ returned.attempt \in 1..Len(outcomes)

\* the payload execute_confirmed_action owes for the record rec when the
\* operation behind its callback ended with outcome
PayloadFor(rec, outcome) ==
    LET r == RunCallback(rec.callback, outcome)
    IN  IF r.raised
        THEN ActionFailedPayload(rec.action_name, r.value)
        ELSE SuccessPayload(rec.action_name, r.value)

\* C30: while the callback of t is suspended the call holds the record stored
\* with t, and the success or error payload it returns carries the action
\* name stored with t and the result of the callback stored with t, whatever
\* other tokens were requested, confirmed or swept in between.
C30_NoMixUp ==
    \A k \in Tasks :
        /\ pc[k] = "awaiting" => action[k] = issued[tok[k]]
        /\ (pc[k] = "done" /\ cbOutcome[k] # "none") =>
              /\ resp[k].action = issued[tok[k]].action_name
              /\ resp[k] = PayloadFor(issued[tok[k]], cbOutcome[k])

\* A confirm returned the payload of its own action while the confirm of a
\* token of another action was suspended in its callback.
C30_Witness ==
    \E k \in Tasks, j \in Tasks :
        /\ k # j
        /\ pc[k] = "done"
        /\ cbOutcome[k] # "none"
        /\ pc[j] = "awaiting"
        /\ tok[j] # tok[k]
        /\ issued[tok[j]].action_name # issued[tok[k]].action_name
        /\ resp[k].action = issued[tok[k]].action_name


====
